---- MODULE Spec2Model ----
(***************************************************************************)
(* A model of the IPL question-answering pipeline: the normalizer and name *)
(* resolver (resolver.py), the intent router (router.py) and the           *)
(* aggregation engine (query.py) over the tables ingest.py fills.          *)
(*                                                                         *)
(* Strings of the resolver are sequences of one-character strings, so that *)
(* normalization, initials keys and substring tests are computed and not   *)
(* assumed.  Three characters have names: "NBSP" is U+00A0, "ZWJ" is       *)
(* U+200D and "TAB" is U+0009.                                             *)
(***************************************************************************)
EXTENDS Integers, Sequences, FiniteSets, TLC

VARIABLES
    normed,      \* normalizer: the results of applying norm to user_text again and again
    teams,       \* Resolver.teams: sorted list of canonical team names
    players,     \* Resolver.players: sorted list of canonical player names
    ratio,       \* the scores fuzz.partial_ratio gives the candidates for user_text
    user_text,   \* the name handed to resolve_team / resolve_player
    resolved,    \* what the resolver returned, NoCall before the call
    query,       \* router: the question, as its words in order
    fuzz,        \* router: what fuzz.partial_ratio gives an intent without a keyword hit
    routed,      \* router: what route returned, NotRouted before the call
    folder,      \* loader: the match files (deliveries CSV and info CSV) on disk
    matches_meta,\* database: rows of table matches_meta
    deliveries,  \* database: rows of table deliveries
    request,     \* query engine: the arguments of the query, NoRequest before
    response     \* query engine: what the query returned, NoResponse before

resolverVars == <<normed, teams, players, ratio, user_text, resolved>>
routerVars == <<query, fuzz, routed>>
dbVars == <<folder, matches_meta, deliveries, request, response>>
vars == <<resolverVars, routerVars, dbVars>>

\* Python's None where a string is expected: no string holds this character.
None == <<"None">>
\* No call has been made yet.
NoCall == <<"NoCall">>
\* Python's None where a word, a number or a database value is expected.
NULL == "NULL"
\* route has not been called yet.
NotRouted == [intent |-> "NotRouted", params |-> <<>>]
\* No query has been asked or answered yet.
NoRequest == [op |-> "NoRequest"]
NoResponse == [op |-> "NoResponse"]

-----------------------------------------------------------------------------
(* Characters *)

UC == <<"A","B","C","D","E","F","G","H","I","J","K","L","M",
        "N","O","P","Q","R","S","T","U","V","W","X","Y","Z">>
LC == <<"a","b","c","d","e","f","g","h","i","j","k","l","m",
        "n","o","p","q","r","s","t","u","v","w","x","y","z">>

IsUpper(c) == \E i \in 1..26 : UC[i] = c
IsLowerLetter(c) == \E i \in 1..26 : LC[i] = c
IsLetter(c) == IsUpper(c) \/ IsLowerLetter(c)

\* str.lower() on one character
lower(c) == IF IsUpper(c) THEN LC[CHOOSE i \in 1..26 : UC[i] = c] ELSE c

\* what Python's \s and str.strip() treat as whitespace (U+00A0 included)
IsSpace(c) == c \in {" ", "TAB", "NBSP"}

\* code-point order of the characters the model uses
CodePoint(c) ==
    CASE c = "TAB"  -> 9
      [] c = " "    -> 32
      [] c = "'"    -> 39
      [] c = "-"    -> 45
      [] c = "."    -> 46
      [] IsUpper(c) -> 64 + (CHOOSE i \in 1..26 : UC[i] = c)
      [] IsLowerLetter(c) -> 96 + (CHOOSE i \in 1..26 : LC[i] = c)
      [] c = "NBSP" -> 160
      [] c = "ZWJ"  -> 8205
      [] OTHER      -> 48

-----------------------------------------------------------------------------
(* String helpers *)

LowerStr(s) == [i \in 1..Len(s) |-> lower(s[i])]

RECURSIVE LStrip(_)
LStrip(s) == IF s # <<>> /\ IsSpace(Head(s)) THEN LStrip(Tail(s)) ELSE s

RECURSIVE RStrip(_)
RStrip(s) ==
    IF s # <<>> /\ IsSpace(s[Len(s)]) THEN RStrip(SubSeq(s, 1, Len(s) - 1)) ELSE s

\* str.strip()
Strip(s) == RStrip(LStrip(s))

\* re.sub(r"\s+", " ", s)
RECURSIVE CollapseWs(_)
CollapseWs(s) ==
    IF s = <<>> THEN <<>>
    ELSE IF IsSpace(Head(s))
         THEN <<" ">> \o CollapseWs(LStrip(s))
         ELSE <<Head(s)>> \o CollapseWs(Tail(s))

\* s.find(k) >= 0
Contains(s, k) ==
    \E i \in 0..(Len(s) - Len(k)) : SubSeq(s, i + 1, i + Len(k)) = k

\* Python's < on strings
RECURSIVE StrLess(_, _)
StrLess(a, b) ==
    IF b = <<>> THEN FALSE
    ELSE IF a = <<>> THEN TRUE
    ELSE IF Head(a) = Head(b) THEN StrLess(Tail(a), Tail(b))
    ELSE CodePoint(Head(a)) < CodePoint(Head(b))

\* sorted(set(names))
RECURSIVE SortedList(_)
SortedList(S) ==
    IF S = {} THEN <<>>
    ELSE LET m == CHOOSE x \in S : \A y \in S \ {x} : StrLess(x, y)
         IN <<m>> \o SortedList(S \ {m})

-----------------------------------------------------------------------------
(* Normalizer *)

\* s.replace("\xa0", " ")
NbspToSpace(s) == [i \in 1..Len(s) |-> IF s[i] = "NBSP" THEN " " ELSE s[i]]
\* re.sub(r"[.\u200d\-]", " ", s)
PunctToSpace(s) == [i \in 1..Len(s) |-> IF s[i] \in {".", "ZWJ", "-"} THEN " " ELSE s[i]]

\* norm with the punctuation replaced after the whitespace is collapsed
norm_late_punct(s) ==
    IF s = None THEN <<>>
    ELSE PunctToSpace(LowerStr(Strip(CollapseWs(NbspToSpace(s)))))

\* norm with the periods, hyphens and joiners deleted
norm_punct_deleted(s) ==
    IF s = None THEN <<>>
    ELSE LowerStr(Strip(CollapseWs(SelectSeq(NbspToSpace(s),
                                             LAMBDA c : c \notin {".", "ZWJ", "-"}))))

norm(s) ==
    IF s = None THEN <<>>
    ELSE LowerStr(Strip(CollapseWs(PunctToSpace(NbspToSpace(s)))))

\* re.sub(r"[^a-zA-Z ]", " ", s)
NonLetterToSpace(s) ==
    [i \in 1..Len(s) |-> IF IsLetter(s[i]) \/ s[i] = " " THEN s[i] ELSE " "]

\* str.split(): the maximal runs of non-whitespace characters
RECURSIVE SplitWs(_)
SplitWs(s) ==
    LET t == LStrip(s)
    IN IF t = <<>> THEN <<>>
       ELSE LET n == IF \E i \in 1..Len(t) : IsSpace(t[i])
                     THEN (CHOOSE i \in 1..Len(t) :
                              IsSpace(t[i]) /\ \A j \in 1..(i - 1) : ~IsSpace(t[j])) - 1
                     ELSE Len(t)
            IN <<SubSeq(t, 1, n)>> \o SplitWs(SubSeq(t, n + 1, Len(t)))

\* "".join(p[0].lower() for p in parts[:-1])
InitialsOf(parts) == [i \in 1..(Len(parts) - 1) |-> lower(parts[i][1])]

\* initials_key that keeps the last token's case
initials_key_keep_case(s) ==
    IF s = None THEN <<>>
    ELSE LET parts == SplitWs(Strip(NonLetterToSpace(s)))
         IN IF parts = <<>> THEN <<>>
            ELSE IF Len(parts) = 1 THEN LowerStr(parts[1])
            ELSE InitialsOf(parts) \o <<" ">> \o parts[Len(parts)]

\* initials_key with the initial of the first token only
initials_key_first_initial(s) ==
    IF s = None THEN <<>>
    ELSE LET parts == SplitWs(Strip(NonLetterToSpace(s)))
         IN IF parts = <<>> THEN <<>>
            ELSE IF Len(parts) = 1 THEN LowerStr(parts[1])
            ELSE <<lower(parts[1][1])>> \o <<" ">> \o LowerStr(parts[Len(parts)])

initials_key(s) ==
    IF s = None THEN <<>>
    ELSE LET parts == SplitWs(Strip(NonLetterToSpace(s)))
         IN IF parts = <<>> THEN <<>>
            ELSE IF Len(parts) = 1 THEN LowerStr(parts[1])
            ELSE InitialsOf(parts) \o <<" ">> \o LowerStr(parts[Len(parts)])

-----------------------------------------------------------------------------
(* Python dicts: sequences of <<key, value>> in insertion order *)

HasKey(d, k) == \E i \in 1..Len(d) : d[i][1] = k
Get(d, k) == d[CHOOSE i \in 1..Len(d) : d[i][1] = k][2]

\* d[k] = v: a new key goes last, a known key keeps its place and gets the value
Put(d, k, v) ==
    IF HasKey(d, k)
    THEN [i \in 1..Len(d) |-> IF d[i][1] = k THEN <<k, v>> ELSE d[i]]
    ELSE Append(d, <<k, v>>)

\* { ks[i]: vs[i] for i in 1..n }
RECURSIVE DictFrom(_, _, _)
DictFrom(ks, vs, n) ==
    IF n = 0 THEN <<>> ELSE Put(DictFrom(ks, vs, n - 1), ks[n], vs[n])

-----------------------------------------------------------------------------
(* Name resolver *)

\* resolver.py TEAM_ALIASES: <<key, target>> in the table's order
TEAM_ALIASES == <<
    <<<<"c","s","k">>,
      <<"C","h","e","n","n","a","i"," ","S","u","p","e","r"," ","K","i","n","g","s">>>>,
    <<<<"m","i">>,
      <<"M","u","m","b","a","i"," ","I","n","d","i","a","n","s">>>>,
    <<<<"r","c","b">>,
      <<"R","o","y","a","l"," ","C","h","a","l","l","e","n","g","e","r","s"," ","B","a","n","g","a","l","o","r","e">>>>,
    <<<<"k","k","r">>,
      <<"K","o","l","k","a","t","a"," ","K","n","i","g","h","t"," ","R","i","d","e","r","s">>>>,
    <<<<"s","r","h">>,
      <<"S","u","n","r","i","s","e","r","s"," ","H","y","d","e","r","a","b","a","d">>>>,
    <<<<"r","r">>,
      <<"R","a","j","a","s","t","h","a","n"," ","R","o","y","a","l","s">>>>,
    <<<<"d","c">>,
      <<"D","e","l","h","i"," ","C","a","p","i","t","a","l","s">>>>,
    <<<<"d","d">>,
      <<"D","e","l","h","i"," ","D","a","r","e","d","e","v","i","l","s">>>>,
    <<<<"k","x","i","p">>,
      <<"K","i","n","g","s"," ","X","I"," ","P","u","n","j","a","b">>>>,
    <<<<"p","b","k","s">>,
      <<"P","u","n","j","a","b"," ","K","i","n","g","s">>>>,
    <<<<"r","p","s">>,
      <<"R","i","s","i","n","g"," ","P","u","n","e"," ","S","u","p","e","r","g","i","a","n","t">>>>,
    <<<<"p","w","i">>,
      <<"P","u","n","e"," ","W","a","r","r","i","o","r","s">>>>,
    <<<<"g","l">>,
      <<"G","u","j","a","r","a","t"," ","L","i","o","n","s">>>>,
    <<<<"k","t","k">>,
      <<"K","o","c","h","i"," ","T","u","s","k","e","r","s"," ","K","e","r","a","l","a">>>>,
    <<<<"d","e","l","h","i">>,
      <<"D","e","l","h","i"," ","C","a","p","i","t","a","l","s">>>>,
    <<<<"p","u","n","j","a","b">>,
      <<"P","u","n","j","a","b"," ","K","i","n","g","s">>>>,
    <<<<"b","a","n","g","a","l","o","r","e">>,
      <<"R","o","y","a","l"," ","C","h","a","l","l","e","n","g","e","r","s"," ","B","a","n","g","a","l","o","r","e">>>>,
    <<<<"b","e","n","g","a","l","u","r","u">>,
      <<"R","o","y","a","l"," ","C","h","a","l","l","e","n","g","e","r","s"," ","B","a","n","g","a","l","o","r","e">>>>,
    <<<<"m","u","m","b","a","i">>,
      <<"M","u","m","b","a","i"," ","I","n","d","i","a","n","s">>>>,
    <<<<"c","h","e","n","n","a","i">>,
      <<"C","h","e","n","n","a","i"," ","S","u","p","e","r"," ","K","i","n","g","s">>>>
  >>

\* resolver.py PLAYER_ALIASES: <<key, target>> in the table's order
PLAYER_ALIASES == <<
    <<<<"r","o","h","i","t"," ","s","h","a","r","m","a">>,
      <<"R","G"," ","S","h","a","r","m","a">>>>,
    <<<<"v","i","r","a","t"," ","k","o","h","l","i">>,
      <<"V"," ","K","o","h","l","i">>>>,
    <<<<"s","a","c","h","i","n"," ","t","e","n","d","u","l","k","a","r">>,
      <<"S","R"," ","T","e","n","d","u","l","k","a","r">>>>,
    <<<<"s","o","u","r","a","v"," ","g","a","n","g","u","l","y">>,
      <<"S","C"," ","G","a","n","g","u","l","y">>>>,
    <<<<"r","a","h","u","l"," ","d","r","a","v","i","d">>,
      <<"R"," ","D","r","a","v","i","d">>>>,
    <<<<"m","s"," ","d","h","o","n","i">>,
      <<"M","S"," ","D","h","o","n","i">>>>,
    <<<<"g","a","u","t","a","m"," ","g","a","m","b","h","i","r">>,
      <<"G"," ","G","a","m","b","h","i","r">>>>,
    <<<<"a","b"," ","d","e"," ","v","i","l","l","i","e","r","s">>,
      <<"A","B"," ","d","e"," ","V","i","l","l","i","e","r","s">>>>
  >>

\* score_cutoff of both resolvers' fuzzy step
ScoreCutoff == 85
\* the cap of resolve_player's candidate list
MaxChoices == 10

\* Resolver.refresh: the three indexes, built from the sorted universes
by_norm_team(ts) == DictFrom([i \in 1..Len(ts) |-> norm(ts[i])], ts, Len(ts))
\* the index of players that keeps the first of the names with one normalized form
by_norm_player_first_kept(ps) ==
    DictFrom([i \in 1..Len(ps) |-> norm(ps[Len(ps) + 1 - i])],
             [i \in 1..Len(ps) |-> ps[Len(ps) + 1 - i]], Len(ps))
by_norm_player(ps) == DictFrom([i \in 1..Len(ps) |-> norm(ps[i])], ps, Len(ps))
by_initials_player(ps) ==
    DictFrom([i \in 1..Len(ps) |-> initials_key(ps[i])], ps, Len(ps))

\* fuzz.partial_ratio(q, c): 100 when one string holds the other, and otherwise
\* the score the library gives, which is an input of the model
partial_ratio(q, c) ==
    IF q = <<>> \/ c = <<>> THEN 0
    ELSE IF Contains(c, q) \/ Contains(q, c) THEN 100
    ELSE ratio[c]

\* process.extractOne: the first candidate of the highest score, when that
\* score reaches the cutoff
best_fuzzy_match(q, candidates, score_cutoff) ==
    IF q = <<>> \/ q = None \/ candidates = <<>> THEN None
    ELSE LET best == CHOOSE i \in 1..Len(candidates) :
                       /\ \A j \in 1..Len(candidates) :
                              partial_ratio(q, candidates[j]) <= partial_ratio(q, candidates[i])
                       /\ \A j \in 1..(i - 1) :
                              partial_ratio(q, candidates[j]) < partial_ratio(q, candidates[i])
         IN IF partial_ratio(q, candidates[best]) >= score_cutoff
            THEN candidates[best] ELSE None

\* the first entry of the index whose key contains key
FirstContaining(d, key) ==
    d[CHOOSE i \in 1..Len(d) :
          Contains(d[i][1], key) /\ \A j \in 1..(i - 1) : ~Contains(d[j][1], key)][2]

\* resolve_team with the substring scan tried before the exact match
resolve_team_substring_first(ts, u) ==
    IF u = <<>> \/ u = None THEN None
    ELSE LET key == norm(u)
             idx == by_norm_team(ts)
         IN IF HasKey(TEAM_ALIASES, key)
            THEN LET alias_target == Get(TEAM_ALIASES, key)
                     alias_norm == norm(alias_target)
                 IN IF HasKey(idx, alias_norm) THEN Get(idx, alias_norm)
                    ELSE alias_target
            ELSE IF key # <<>> /\ \E i \in 1..Len(idx) : Contains(idx[i][1], key)
            THEN FirstContaining(idx, key)
            ELSE IF HasKey(idx, key) THEN Get(idx, key)
            ELSE best_fuzzy_match(u, ts, ScoreCutoff)

\* Resolver.resolve_team
resolve_team(ts, u) ==
    IF u = <<>> \/ u = None THEN None
    ELSE LET key == norm(u)
             idx == by_norm_team(ts)
         IN IF HasKey(TEAM_ALIASES, key)
            THEN LET alias_target == Get(TEAM_ALIASES, key)
                     alias_norm == norm(alias_target)
                 IN IF HasKey(idx, alias_norm) THEN Get(idx, alias_norm)
                    ELSE alias_target
            ELSE IF HasKey(idx, key) THEN Get(idx, key)
            ELSE IF key # <<>> /\ \E i \in 1..Len(idx) : Contains(idx[i][1], key)
            THEN FirstContaining(idx, key)
            ELSE best_fuzzy_match(u, ts, ScoreCutoff)

\* the substring loop without its cap
RECURSIVE ChoicesUncapped(_, _, _, _)
ChoicesUncapped(ps, key, n, cap) ==
    IF n = 0 THEN <<>>
    ELSE LET before == ChoicesUncapped(ps, key, n - 1, cap)
         IN IF Contains(norm(ps[n]), key) THEN Append(before, ps[n]) ELSE before

\* the loop of resolve_player's substring step over players[1..n]: the names
\* whose normalized form contains key, the scan ending once cap names are held
RECURSIVE ChoicesUpTo(_, _, _, _)
ChoicesUpTo(ps, key, n, cap) ==
    IF n = 0 THEN <<>>
    ELSE LET before == ChoicesUpTo(ps, key, n - 1, cap)
         IN IF Len(before) >= cap THEN before
            ELSE IF Contains(norm(ps[n]), key) THEN Append(before, ps[n])
            ELSE before

\* resolve_player with the initials step tried before the exact match
resolve_player_initials_first(ps, u) ==
    IF u = <<>> \/ u = None THEN <<None, <<>>>>
    ELSE LET key == norm(u)
             idx == by_norm_player(ps)
             ini == by_initials_player(ps)
         IN IF HasKey(PLAYER_ALIASES, key)
            THEN LET target == Get(PLAYER_ALIASES, key)
                 IN IF HasKey(idx, norm(target)) THEN <<Get(idx, norm(target)), <<>>>>
                    ELSE IF HasKey(ini, initials_key(target))
                    THEN <<Get(ini, initials_key(target)), <<>>>>
                    ELSE <<target, <<>>>>
            ELSE IF HasKey(ini, initials_key(u)) THEN <<Get(ini, initials_key(u)), <<>>>>
            ELSE IF HasKey(idx, key) THEN <<Get(idx, key), <<>>>>
            ELSE LET choices == ChoicesUpTo(ps, key, Len(ps), MaxChoices)
                 IN IF Len(choices) = 1 THEN <<choices[1], <<>>>>
                    ELSE IF Len(choices) > 1 THEN <<None, choices>>
                    ELSE <<best_fuzzy_match(u, ps, ScoreCutoff), <<>>>>

\* Resolver.resolve_player: <<canonical name or None, choices>>
resolve_player(ps, u) ==
    IF u = <<>> \/ u = None THEN <<None, <<>>>>
    ELSE LET key == norm(u)
             idx == by_norm_player(ps)
             ini == by_initials_player(ps)
         IN IF HasKey(PLAYER_ALIASES, key)
            THEN LET target == Get(PLAYER_ALIASES, key)
                 IN IF HasKey(idx, norm(target)) THEN <<Get(idx, norm(target)), <<>>>>
                    ELSE IF HasKey(ini, initials_key(target))
                    THEN <<Get(ini, initials_key(target)), <<>>>>
                    ELSE <<target, <<>>>>
            ELSE IF HasKey(idx, key) THEN <<Get(idx, key), <<>>>>
            ELSE IF HasKey(ini, initials_key(u)) THEN <<Get(ini, initials_key(u)), <<>>>>
            ELSE LET choices == ChoicesUpTo(ps, key, Len(ps), MaxChoices)
                 IN IF Len(choices) = 1 THEN <<choices[1], <<>>>>
                    ELSE IF Len(choices) > 1 THEN <<None, choices>>
                    ELSE <<best_fuzzy_match(u, ps, ScoreCutoff), <<>>>>

-----------------------------------------------------------------------------
(* Bounds and input sets of the normalizer and resolver *)

\* longest string handed to norm
MaxNormLen == 4
\* how often norm is applied to its own result
MaxNormCalls == 2
\* how many filler players "A Sharma", "B Sharma", ... the universe may hold
MaxFill == 11

NormChars == {"a", "B", ".", "-", "ZWJ", "NBSP", " ", "TAB"}

StringsUpTo(S, n) == UNION {[1..k -> S] : k \in 0..n}

S_ChennaiSuperKings == <<"C","h","e","n","n","a","i"," ","S","u","p","e","r"," ","K","i","n","g","s">>
S_chennaisuperkings == <<"c","h","e","n","n","a","i"," ","s","u","p","e","r"," ","k","i","n","g","s">>
S_MumbaiIndians == <<"M","u","m","b","a","i"," ","I","n","d","i","a","n","s">>
S_Kings == <<"K","i","n","g","s">>
S_MI == <<"M","I">>

TeamPool == {S_ChennaiSuperKings, S_chennaisuperkings, S_MumbaiIndians, S_Kings, S_MI}

TeamInputs == {
    <<"C","S","K">>, <<"c","s","k">>, <<"C","s","k">>,
    <<"p","w","i">>, <<"M","I">>,
    <<"M","u","m","b","a","i","-","I","n","d","i","a","n","s">>,
    <<"K","i","n","g","s">>, <<"S","u","p","e","r">>,
    <<"M","u","m","b","a","y">>,
    <<>>, <<" ">> }

S_RGSharma == <<"R","G"," ","S","h","a","r","m","a">>
S_rgsharma == <<"r","g"," ","s","h","a","r","m","a">>
S_RSharma == <<"R"," ","S","h","a","r","m","a">>
S_VKohli == <<"V"," ","K","o","h","l","i">>

CorePlayers == {S_RGSharma, S_rgsharma, S_RSharma, S_VKohli}
Filler(i) == <<UC[i]>> \o <<" ","S","h","a","r","m","a">>
Fillers(n) == {Filler(i) : i \in 1..n}

PlayerInputs == {
    <<"R","o","h","i","t"," ","S","h","a","r","m","a">>,
    <<"r","o","h","i","t","-","s","h","a","r","m","a">>,
    <<"V","i","r","a","t"," ","K","o","h","l","i">>,
    <<"M","S"," ","D","h","o","n","i">>,
    <<"v"," ","k","o","h","l","i">>,
    <<"r"," ","s","h","a","r","m","a">>,
    <<"R","a","h","u","l"," ","S","h","a","r","m","a">>,
    <<"S","h","a","r","m","a">>, <<"K","o","h","l","i">>,
    <<"K","o","h","l","e","e">>,
    <<".">>, <<>> }

\* the library's scores: all just below the cutoff, all at it, or one candidate at it
RatioTables(pool, hots) ==
    {[c \in pool |-> s] : s \in {ScoreCutoff - 1, ScoreCutoff}}
    \cup {[c \in pool |-> IF c = hot THEN ScoreCutoff ELSE ScoreCutoff - 1] : hot \in hots}

-----------------------------------------------------------------------------
(* Specifications of the normalizer and resolver *)

\* The router has not been asked anything and the database is empty.
RouterIdle == query = <<>> /\ fuzz = <<>> /\ routed = NotRouted
DbIdle ==
    /\ folder = {} /\ matches_meta = {} /\ deliveries = {}
    /\ request = NoRequest /\ response = NoResponse
ResolverIdle ==
    /\ normed = <<>> /\ teams = <<>> /\ players = <<>> /\ ratio = <<>>
    /\ user_text = <<>> /\ resolved = NoCall

InitNorm ==
    /\ user_text \in StringsUpTo(NormChars, MaxNormLen) \cup {None}
    /\ normed = <<>>
    /\ teams = <<>> /\ players = <<>> /\ ratio = <<>> /\ resolved = NoCall
    /\ RouterIdle /\ DbIdle

\* norm applied to the input, then to its own result
Normalize ==
    /\ Len(normed) < MaxNormCalls
    /\ normed' = Append(normed, norm(IF normed = <<>> THEN user_text
                                     ELSE normed[Len(normed)]))
    /\ UNCHANGED <<teams, players, ratio, user_text, resolved, routerVars, dbVars>>

SpecNorm == InitNorm /\ [][Normalize]_vars

InitTeam ==
    /\ \E U \in SUBSET TeamPool : teams = SortedList(U)
    /\ ratio \in RatioTables(TeamPool, TeamPool)
    /\ user_text \in TeamInputs
    /\ resolved = NoCall
    /\ players = <<>> /\ normed = <<>>
    /\ RouterIdle /\ DbIdle

ResolveTeam ==
    /\ resolved = NoCall
    /\ resolved' = resolve_team(teams, user_text)
    /\ UNCHANGED <<normed, teams, players, ratio, user_text, routerVars, dbVars>>

SpecTeam == InitTeam /\ [][ResolveTeam]_vars

InitPlayer ==
    /\ \E U \in SUBSET CorePlayers, n \in 0..MaxFill : players = SortedList(U \cup Fillers(n))
    /\ ratio \in RatioTables(CorePlayers \cup Fillers(MaxFill), CorePlayers)
    /\ user_text \in PlayerInputs
    /\ resolved = NoCall
    /\ teams = <<>> /\ normed = <<>>
    /\ RouterIdle /\ DbIdle

ResolvePlayer ==
    /\ resolved = NoCall
    /\ resolved' = resolve_player(players, user_text)
    /\ UNCHANGED <<normed, teams, players, ratio, user_text, routerVars, dbVars>>

SpecPlayer == InitPlayer /\ [][ResolvePlayer]_vars

-----------------------------------------------------------------------------
(* Claims about the normalizer and resolver *)

Range(s) == {s[i] : i \in 1..Len(s)}

\* the candidates whose score is the highest and reaches the cutoff
FuzzyBest(u, cands) ==
    {c \in Range(cands) :
        /\ partial_ratio(u, c) >= ScoreCutoff
        /\ \A d \in Range(cands) : partial_ratio(u, d) <= partial_ratio(u, c)}

TeamAliasHit == HasKey(TEAM_ALIASES, norm(user_text))
TeamExactHit == \E t \in Range(teams) : norm(t) = norm(user_text)
TeamSubstringHit ==
    norm(user_text) # <<>> /\ \E t \in Range(teams) : Contains(norm(t), norm(user_text))
TeamFuzzyHit == FuzzyBest(user_text, teams) # {}

\* C4: resolve_team returns the result of the first step that matches, in the
\* order manual alias, exact normalized match, substring containment (of a
\* non-empty key), fuzzy match with score >= 85, and None when no step matches.
\* On an alias key it returns a canonical team whose normalized name equals the
\* normalized alias target when there is one, and the alias target itself
\* otherwise, whatever the later steps would give.
C4_TeamPrecedence ==
    resolved # NoCall =>
        LET key == norm(user_text)
        IN IF user_text = <<>> THEN resolved = None
           ELSE IF TeamAliasHit
           THEN LET target == Get(TEAM_ALIASES, key)
                IN IF \E t \in Range(teams) : norm(t) = norm(target)
                   THEN resolved \in Range(teams) /\ norm(resolved) = norm(target)
                   ELSE resolved = target
           ELSE IF TeamExactHit
           THEN resolved \in Range(teams) /\ norm(resolved) = key
           ELSE IF TeamSubstringHit
           THEN resolved \in Range(teams) /\ Contains(norm(resolved), key)
           ELSE IF TeamFuzzyHit
           THEN resolved \in FuzzyBest(user_text, teams)
           ELSE resolved = None

\* C4 witness: the exact step decided although an earlier-sorted team contains
\* the key and the fuzzy step would have matched too.
C4_Witness ==
    /\ resolved = S_Kings
    /\ user_text = S_Kings
    /\ S_ChennaiSuperKings \in Range(teams)
    /\ ~TeamAliasHit

PlayerKey == norm(user_text)
PlayerAliasHit == HasKey(PLAYER_ALIASES, PlayerKey)
PlayerExactHit == \E p \in Range(players) : norm(p) = PlayerKey
PlayerInitialsHit == \E p \in Range(players) : initials_key(p) = initials_key(user_text)
PlayersContaining == {p \in Range(players) : Contains(norm(p), PlayerKey)}
SubstringStepReached ==
    /\ resolved # NoCall /\ user_text # <<>>
    /\ ~PlayerAliasHit /\ ~PlayerExactHit /\ ~PlayerInitialsHit

\* what C5 says of every step
PlayerCascade ==
    IF user_text = <<>> THEN resolved = <<None, <<>>>>
    ELSE IF PlayerAliasHit
    THEN LET target == Get(PLAYER_ALIASES, PlayerKey)
         IN /\ resolved[2] = <<>>
            /\ IF \E p \in Range(players) : norm(p) = norm(target)
               THEN resolved[1] \in Range(players) /\ norm(resolved[1]) = norm(target)
               ELSE IF \E p \in Range(players) : initials_key(p) = initials_key(target)
               THEN /\ resolved[1] \in Range(players)
                    /\ initials_key(resolved[1]) = initials_key(target)
               ELSE resolved[1] = target
    ELSE IF PlayerExactHit
    THEN resolved[2] = <<>> /\ resolved[1] \in Range(players) /\ norm(resolved[1]) = PlayerKey
    ELSE IF PlayerInitialsHit
    THEN /\ resolved[2] = <<>> /\ resolved[1] \in Range(players)
         /\ initials_key(resolved[1]) = initials_key(user_text)
    ELSE IF PlayersContaining # {}
    THEN \/ resolved[1] \in PlayersContaining /\ resolved[2] = <<>>
         \/ resolved[1] = None /\ resolved[2] # <<>>
    ELSE IF FuzzyBest(user_text, players) # {}
    THEN resolved[1] \in FuzzyBest(user_text, players) /\ resolved[2] = <<>>
    ELSE resolved = <<None, <<>>>>

S_rohitsharma == <<"r","o","h","i","t"," ","s","h","a","r","m","a">>

C6_SubstringStep ==
    SubstringStepReached =>
        /\ Cardinality(PlayersContaining) = 1
              => resolved[1] \in PlayersContaining /\ resolved[2] = <<>>
        /\ Cardinality(PlayersContaining) > 1
              => /\ resolved[1] = None
                 /\ resolved[2] # <<>>
                 /\ Len(resolved[2]) <= MaxChoices
                 /\ Len(resolved[2]) = Cardinality(Range(resolved[2]))
                 /\ Range(resolved[2]) \subseteq PlayersContaining
        /\ PlayersContaining = {}
              => /\ resolved[2] = <<>>
                 /\ resolved[1] \in FuzzyBest(user_text, players) \cup {None}
                 /\ resolved[1] = None <=> FuzzyBest(user_text, players) = {}

\* C6 witness: more than 10 players contain the input and exactly 10 are listed.
C6_Witness ==
    /\ SubstringStepReached
    /\ Cardinality(PlayersContaining) > MaxChoices
    /\ resolved[1] = None
    /\ Len(resolved[2]) = MaxChoices

\* C7: norm is idempotent: applying norm to a result of norm gives that result.
C7_NormIdempotent ==
    \A i \in 2..Len(normed) : normed[i] = normed[i - 1]

\* C7 witness: norm changed the input, and the second application changed nothing.
C7_Witness ==
    /\ Len(normed) >= 2
    /\ normed[1] # user_text
    /\ normed[1] # <<>>
    /\ normed[2] = normed[1]

-----------------------------------------------------------------------------
(* Intent router.  A question is the sequence of its words in lower case,  *)
(* which is what clean_space and the IGNORECASE patterns make of a text    *)
(* whose words are separated by blanks.  A word of a text is made of       *)
(* letters only unless NonAlphaWords lists it, and has no hyphen, so the   *)
(* character classes [a-z .&/] and [a-z .] of the extractors run over      *)
(* whole words and stop at the words NonAlphaWords lists.                  *)

\* words of the shape 20dd or 20dd/dd
SeasonWords == {"2011", "2016", "2011/12"}
\* words of the shape <digits>(st|nd|rd|th), with int(<digits>)
SuffixedNumbers == << <<"0th", 0>>, <<"1st", 1>>, <<"2nd", 2>>, <<"3rd", 3>>, <<"11th", 11>> >>
\* words of one or two digits, with their value
PlainNumbers == << <<"0", 0>>, <<"2", 2>>, <<"3", 3>>, <<"10", 10>>, <<"12", 12>> >>
NonAlphaWords ==
    SeasonWords \cup {SuffixedNumbers[i][1] : i \in 1..Len(SuffixedNumbers)}
                \cup {PlainNumbers[i][1] : i \in 1..Len(PlainNumbers)}
                \cup {"h2h", "&"}
IsAlpha(w) == w \notin NonAlphaWords
\* the letters a word of NonAlphaWords starts with, when it starts with any
LeadingLetters == << <<"h2h", "h">> >>

\* the phrase p occurs in the text t
Occurs(p, t) ==
    p # <<>> /\ \E i \in 0..(Len(t) - Len(p)) : SubSeq(t, i + 1, i + Len(p)) = p
OccursAny(P, t) == \E p \in P : Occurs(p, t)
HasWord(t, W) == \E i \in 1..Len(t) : t[i] \in W
AllAlpha(t, a, b) == \A i \in a..b : IsAlpha(t[i])
\* the last index of the run of letter-only words that starts at j (j-1 if none)
RECURSIVE RunEnd(_, _)
RunEnd(t, j) == IF j <= Len(t) /\ IsAlpha(t[j]) THEN RunEnd(t, j + 1) ELSE j - 1

TEAM_SHORTS == {"csk","mi","rcb","kkr","srh","dc","dd","kxip","pbks","rr","rps","gl","ktk","pwi"}
TEAM_FULL == {
    <<"chennai","super","kings">>, <<"mumbai","indians">>,
    <<"royal","challengers","bangalore">>, <<"kolkata","knight","riders">>,
    <<"sunrisers","hyderabad">>, <<"delhi","capitals">>, <<"deccan","chargers">>,
    <<"kings","xi","punjab">>, <<"punjab","kings">>, <<"rajasthan","royals">>,
    <<"rising","pune","supergiant">>, <<"rising","pune","supergiants">>,
    <<"gujarat","lions">>, <<"kochi","tuskers","kerala">>, <<"pune","warriors","india">> }

is_team_token(tok) == (Len(tok) = 1 /\ tok[1] \in TEAM_SHORTS) \/ tok \in TEAM_FULL

VS_WORDS == {"vs", "v", "versus", "against"}
SQUAD_WORDS == {<<"squad">>, <<"roster">>, <<"lineup">>, <<"line-up">>, <<"line","up">>,
                <<"team","list">>, <<"players","list">>}
SUMMARY_WORDS == {<<"summary">>, <<"recap">>, <<"result">>, <<"tell","me","about">>,
                  <<"what","happened">>, <<"match","report">>, <<"scorecard">>}
H2H_WORDS == {<<"head","to","head">>, <<"headtohead">>, <<"h2h">>, <<"compare">>, <<"comparison">>}
STATS_WORDS == {"stat", "stats", "statistics", "figures", "numbers", "record", "profile"}

INTENT_KEYWORDS == [
    match_summary |-> {<<"summary">>, <<"recap">>, <<"result">>, <<"what","happened">>,
                       <<"match","report">>, <<"scorecard">>},
    team_squad |-> {<<"squad">>, <<"roster">>, <<"lineup">>, <<"line-up">>,
                    <<"team","list">>, <<"players","list">>},
    player_stats |-> {<<"stats">>, <<"statistics">>, <<"figures">>, <<"record">>, <<"profile">>},
    player_vs_team |-> {<<"vs">>, <<"against">>},
    head_to_head |-> {<<"head","to","head">>, <<"h2h">>, <<"compare">>, <<"comparison">>,
                      <<"versus">>, <<"vs">>},
    best_phase_bowler |-> {<<"best">>, <<"top">>, <<"death">>, <<"powerplay">>, <<"power","play">>,
                           <<"middle","overs">>, <<"slog">>, <<"end","overs">>} ]

PHASE_ALIASES == <<
    <<<<"pp">>, "PP">>, <<<<"powerplay">>, "PP">>, <<<<"power","play">>, "PP">>,
    <<<<"power-play">>, "PP">>, <<<<"middle">>, "Middle">>, <<<<"middle","overs">>, "Middle">>,
    <<<<"middles">>, "Middle">>, <<<<"death">>, "Death">>, <<<<"slog">>, "Death">>,
    <<<<"end","overs">>, "Death">> >>

PrefixWords == {"show","tell","give","get","display","list","compare","comparison",
                "h2h","versus","vs","v","headtohead"}
PrefixOfWords == {"summary", "result", "scorecard"}

\* drops the leading intent words, again and again
RECURSIVE strip_intent_prefix(_)
strip_intent_prefix(q) ==
    LET n == Len(q)
        drop(k) == strip_intent_prefix(SubSeq(q, k + 1, n))
    IN  IF n = 0 THEN q
        ELSE IF q[1] \in PrefixWords THEN drop(1)
        ELSE IF n >= 3 /\ SubSeq(q, 1, 3) = <<"head","to","head">> THEN drop(3)
        ELSE IF q[1] \in PrefixOfWords THEN (IF n >= 2 /\ q[2] = "of" THEN drop(2) ELSE drop(1))
        ELSE IF n >= 2 /\ SubSeq(q, 1, 2) \in {<<"what","happened">>, <<"match","report">>} THEN drop(2)
        ELSE q

\* tok with every "in|for <season>" removed: the key normalize_team_token looks up
RECURSIVE DropInSeason(_)
DropInSeason(tok) ==
    IF tok = <<>> THEN tok
    ELSE IF Len(tok) >= 2 /\ tok[1] \in {"in", "for"} /\ tok[2] \in SeasonWords
         THEN DropInSeason(SubSeq(tok, 3, Len(tok)))
         ELSE <<tok[1]>> \o DropInSeason(Tail(tok))

\* The result is the upper-case short code, or the words of tok in title case.
normalize_team_token(tok) ==
    LET u == DropInSeason(tok)
    IN  IF Len(u) = 1 /\ u[1] \in TEAM_SHORTS
        THEN [casing |-> "upper", words |-> u]
        ELSE [casing |-> "title", words |-> tok]

\* 100 when a keyword lies in the text or the text in a keyword, else what
\* rapidfuzz gives, which the table fz holds; 0 for every key on an empty text
score_intent(text, fz) ==
    [intent \in DOMAIN INTENT_KEYWORDS |->
        IF text = <<>> THEN 0
        ELSE IF \E k \in INTENT_KEYWORDS[intent] : Occurs(k, text) \/ Occurs(text, k) THEN 100
        ELSE fz[intent]]

parse_season(q) ==
    IF HasWord(q, SeasonWords)
    THEN q[CHOOSE i \in 1..Len(q) : q[i] \in SeasonWords /\ \A j \in 1..(i - 1) : q[j] \notin SeasonWords]
    ELSE NULL

ordmap == << <<"first", 1>>, <<"second", 2>>, <<"third", 3>>, <<"fourth", 4>>, <<"fifth", 5>> >>

\* the values of the words of q that table tab lists, in the order of q
NumbersIn(q, tab) ==
    LET hits == SelectSeq(q, LAMBDA w : HasKey(tab, w))
    IN  [i \in 1..Len(hits) |-> Get(tab, hits[i])]

parse_nth(q, default) ==
    LET words == {q[i] : i \in 1..Len(q)}
        suffixed == NumbersIn(q, SuffixedNumbers)
        small == SelectSeq(NumbersIn(q, PlainNumbers), LAMBDA n : 1 <= n /\ n <= 10)
    IN  IF \E j \in 1..Len(ordmap) : ordmap[j][1] \in words
        THEN ordmap[CHOOSE j \in 1..Len(ordmap) :
                        ordmap[j][1] \in words /\ \A k \in 1..(j - 1) : ordmap[k][1] \notin words][2]
        ELSE IF suffixed # <<>> THEN suffixed[1]
        ELSE IF small # <<>> THEN small[1]
        ELSE default

\* the first alias, in the order of the dict, that occurs in q
detect_phase(q) ==
    IF \E j \in 1..Len(PHASE_ALIASES) : Occurs(PHASE_ALIASES[j][1], q)
    THEN PHASE_ALIASES[CHOOSE j \in 1..Len(PHASE_ALIASES) :
                          /\ Occurs(PHASE_ALIASES[j][1], q)
                          /\ \A k \in 1..(j - 1) : ~Occurs(PHASE_ALIASES[k][1], q)][2]
    ELSE NULL

AmpToAnd(q) == [i \in 1..Len(q) |-> IF q[i] = "&" THEN "and" ELSE q[i]]

\* "\b(G1+?)\s+SEP\s+(G2+?)\b": G1 is the words s..v-1, all of letters, before
\* the separator at v, and G2, lazy up to a word boundary, is the word v+1.
PairAt(t, s, v, seps) ==
    /\ s < v /\ v < Len(t) /\ t[v] \in seps
    /\ AllAlpha(t, s, v - 1) /\ IsAlpha(t[v + 1])

\* re.search: the leftmost start, then the shortest G1; <<>> when no match
SearchPair(t, seps) ==
    LET Starts == {s \in 1..Len(t) : \E v \in 1..Len(t) : PairAt(t, s, v, seps)}
    IN  IF Starts = {} THEN <<>>
        ELSE LET s0 == CHOOSE s \in Starts : \A s2 \in Starts : s <= s2
                 Seps == {v \in 1..Len(t) : PairAt(t, s0, v, seps)}
                 v0 == CHOOSE v \in Seps : \A v2 \in Seps : v <= v2
             IN  <<SubSeq(t, s0, v0 - 1), <<t[v0 + 1]>>>>

\* "between\s+(G1+?)\s+and\s+(G2+?)\b"
BetweenAt(t, w, v) ==
    /\ t[w] = "between" /\ w + 1 < v /\ v < Len(t) /\ t[v] = "and"
    /\ AllAlpha(t, w + 1, v - 1) /\ IsAlpha(t[v + 1])

SearchBetween(t) ==
    LET Starts == {w \in 1..Len(t) : \E v \in 1..Len(t) : BetweenAt(t, w, v)}
    IN  IF Starts = {} THEN <<>>
        ELSE LET w0 == CHOOSE w \in Starts : \A w2 \in Starts : w <= w2
                 Ands == {v \in 1..Len(t) : BetweenAt(t, w0, v)}
                 v0 == CHOOSE v \in Ands : \A v2 \in Ands : v <= v2
             IN  <<SubSeq(t, w0 + 1, v0 - 1), <<t[v0 + 1]>>>>

\* <<a, b>> or <<>> for None.  The season suffix line 126 cuts from b needs
\* two words, and b is one word.
extract_teams_pair(q) ==
    LET qs == AmpToAnd(strip_intent_prefix(q))
        m1 == SearchPair(qs, VS_WORDS)
        m2 == SearchBetween(qs)
        m3 == SearchPair(qs, {"and"})
    IN  IF m1 # <<>> THEN m1
        ELSE IF m2 # <<>> THEN m2
        ELSE IF m3 # <<>> /\ is_team_token(m3[1]) /\ is_team_token(m3[2]) THEN m3
        ELSE <<>>

\* <<player, opponent>> or <<>> for None
extract_player_vs_team(q) ==
    LET qs == AmpToAnd(strip_intent_prefix(q))
        m1 == SearchPair(qs, VS_WORDS)
        m == IF m1 # <<>> THEN m1 ELSE SearchPair(qs, {"against"})
    IN  IF m = <<>> THEN <<>>
        ELSE IF ~is_team_token(m[1]) THEN <<m[1], normalize_team_token(m[2])>>
        ELSE <<>>

\* the number of words of the squad phrase that starts at word i, 0 if none
SquadLen(t, i) ==
    IF <<t[i]>> \in SQUAD_WORDS THEN 1
    ELSE IF i < Len(t) /\ <<t[i], t[i + 1]>> \in SQUAD_WORDS THEN 2
    ELSE 0

\* "\b(SQUAD)\s+(?:of|for)?\s*([a-z .&]+)" matches at the squad phrase at i
\* when a letter follows it.
SquadBeforeAt(t, i) ==
    /\ SquadLen(t, i) > 0 /\ i + SquadLen(t, i) <= Len(t)
    /\ (IsAlpha(t[i + SquadLen(t, i)]) \/ HasKey(LeadingLetters, t[i + SquadLen(t, i)]))

\* A greedy group that no \b closes: the run of words from j, and the leading
\* letters of the word that stops it.
GreedyRun(t, j) ==
    LET e == RunEnd(t, j)
    IN  SubSeq(t, j, e) \o (IF e < Len(t) /\ HasKey(LeadingLetters, t[e + 1])
                            THEN <<Get(LeadingLetters, t[e + 1])>> ELSE <<>>)

\* Its group: the run of words after the phrase and after "of" or "for"; only
\* the blank when no word of letters follows "of"; "of" itself when it is last.
SquadBeforeGroup(t, i) ==
    LET j == i + SquadLen(t, i)
    IN  IF t[j] \in {"of", "for"}
        THEN (IF j = Len(t) THEN <<t[j]>> ELSE GreedyRun(t, j + 1))
        ELSE GreedyRun(t, j)

\* "\b([a-z .&]+)\s+SQUAD\b": the words s..w-1 before a squad phrase at w
SquadAfterAt(t, s, w) == s < w /\ SquadLen(t, w) > 0 /\ AllAlpha(t, s, w - 1)

\* The team as words; <<>> both for None and for the empty string the first
\* pattern gives on "squad of 2011": route only tests the result for truth.
extract_team_for_squad(q) ==
    LET qs == strip_intent_prefix(q)
        Before == {i \in 1..Len(qs) : SquadBeforeAt(qs, i)}
        After == {s \in 1..Len(qs) : \E w \in 1..Len(qs) : SquadAfterAt(qs, s, w)}
    IN  IF Before # {}
        THEN SquadBeforeGroup(qs, CHOOSE i \in Before : \A i2 \in Before : i <= i2)
        ELSE IF After # {}
        THEN LET s0 == CHOOSE s \in After : \A s2 \in After : s <= s2
                 Ws == {w \in 1..Len(qs) : SquadAfterAt(qs, s0, w)}
                 w0 == CHOOSE w \in Ws : \A w2 \in Ws : w >= w2
             IN  SubSeq(qs, s0, w0 - 1)
        ELSE <<>>

\* "\bSTATS\b.*?\b([a-z .]+)\b" matches at the first stats word that is not the
\* last word, and its group is the run of words after it (the blank alone when
\* a number follows).  "\b([a-z .]+)\b.*?\bSTATS\b" is tried when the only
\* stats word is the last word: its group is the longest run from the first
\* word (from the blank after it when it is a number) that stops before it.
\* <<>> both for None and for the empty string.
extract_player_for_stats(q) ==
    LET qs == strip_intent_prefix(q)
        n == Len(qs)
        Inner == {i \in 1..(n - 1) : qs[i] \in STATS_WORDS}
    IN  IF Inner # {}
        THEN LET i0 == CHOOSE i \in Inner : \A i2 \in Inner : i <= i2
             IN  SubSeq(qs, i0 + 1, RunEnd(qs, i0 + 1))
        ELSE IF n >= 2 /\ qs[n] \in STATS_WORDS
        THEN LET s0 == IF IsAlpha(qs[1]) THEN 1 ELSE 2
                 e == IF RunEnd(qs, s0) < n THEN RunEnd(qs, s0) ELSE n - 1
             IN  SubSeq(qs, s0, e)
        ELSE <<>>

\* a scope that ignores the season
scope_career(season) == "career"

\* "season" if season else "career"
ScopeOf(season) == IF season # NULL THEN "season" ELSE "career"
Unknown == [intent |-> "unknown", params |-> <<>>]

\* the cascade with player_stats tried before team_squad
route_stats_before_squad(q, fz) ==
    LET season == parse_season(q)
        nth == parse_nth(q, 1)
        scores == score_intent(q, fz)
        tp == extract_teams_pair(q)
        pvt == extract_player_vs_team(q)
        team_for_squad == extract_team_for_squad(q)
        player == extract_player_for_stats(q)
    IN  IF HasWord(q, {"best", "top"}) /\ HasWord(q, {"bowler", "bowlers"}) /\ detect_phase(q) # NULL
        THEN [intent |-> "best_phase_bowler",
              params |-> [phase |-> detect_phase(q), scope |-> ScopeOf(season), season |-> season]]
        ELSE IF tp # <<>> /\ (OccursAny(SUMMARY_WORDS, q) \/ HasWord(q, {"match"}))
        THEN [intent |-> "match_summary",
              params |-> [team_a |-> normalize_team_token(tp[1]),
                          team_b |-> normalize_team_token(tp[2]),
                          season |-> season, nth |-> nth]]
        ELSE IF pvt # <<>>
        THEN [intent |-> "player_vs_team",
              params |-> [player |-> pvt[1], opponent |-> pvt[2],
                          scope |-> ScopeOf(season), season |-> season]]
        ELSE IF player # <<>> /\ (scores.player_stats >= 55 \/ HasWord(q, STATS_WORDS))
        THEN [intent |-> "player_stats",
              params |-> [player |-> player, scope |-> ScopeOf(season), season |-> season]]
        ELSE IF team_for_squad # <<>> /\ (scores.team_squad >= 55 \/ OccursAny(SQUAD_WORDS, q))
        THEN [intent |-> "team_squad",
              params |-> [team |-> normalize_team_token(team_for_squad), season |-> season]]
        ELSE IF tp # <<>> /\ (\/ scores.head_to_head >= 40
                              \/ OccursAny(H2H_WORDS, q)
                              \/ \E i \in 2..(Len(q) - 1) : q[i] \in {"vs", "between"}
                              \/ HasWord(q, {"&"}))
        THEN [intent |-> "head_to_head",
              params |-> [team_a |-> normalize_team_token(tp[1]),
                          team_b |-> normalize_team_token(tp[2]),
                          scope |-> ScopeOf(season), season |-> season]]
        ELSE Unknown

route(q, fz) ==
    LET season == parse_season(q)
        nth == parse_nth(q, 1)
        scores == score_intent(q, fz)
        tp == extract_teams_pair(q)
        pvt == extract_player_vs_team(q)
        team_for_squad == extract_team_for_squad(q)
        player == extract_player_for_stats(q)
    IN  IF HasWord(q, {"best", "top"}) /\ HasWord(q, {"bowler", "bowlers"}) /\ detect_phase(q) # NULL
        THEN [intent |-> "best_phase_bowler",
              params |-> [phase |-> detect_phase(q), scope |-> ScopeOf(season), season |-> season]]
        ELSE IF tp # <<>> /\ (OccursAny(SUMMARY_WORDS, q) \/ HasWord(q, {"match"}))
        THEN [intent |-> "match_summary",
              params |-> [team_a |-> normalize_team_token(tp[1]),
                          team_b |-> normalize_team_token(tp[2]),
                          season |-> season, nth |-> nth]]
        ELSE IF pvt # <<>>
        THEN [intent |-> "player_vs_team",
              params |-> [player |-> pvt[1], opponent |-> pvt[2],
                          scope |-> ScopeOf(season), season |-> season]]
        ELSE IF team_for_squad # <<>> /\ (scores.team_squad >= 55 \/ OccursAny(SQUAD_WORDS, q))
        THEN [intent |-> "team_squad",
              params |-> [team |-> normalize_team_token(team_for_squad), season |-> season]]
        ELSE IF player # <<>> /\ (scores.player_stats >= 55 \/ HasWord(q, STATS_WORDS))
        THEN [intent |-> "player_stats",
              params |-> [player |-> player, scope |-> ScopeOf(season), season |-> season]]
        ELSE IF tp # <<>> /\ (\/ scores.head_to_head >= 40
                              \/ OccursAny(H2H_WORDS, q)
                              \/ \E i \in 2..(Len(q) - 1) : q[i] \in {"vs", "between"}
                              \/ HasWord(q, {"&"}))
        THEN [intent |-> "head_to_head",
              params |-> [team_a |-> normalize_team_token(tp[1]),
                          team_b |-> normalize_team_token(tp[2]),
                          scope |-> ScopeOf(season), season |-> season]]
        ELSE Unknown

-----------------------------------------------------------------------------
(* Specification of the router *)

MaxWords == 4
RouteWords == {"best", "bowlers", "death", "match", "vs", "and", "between",
               "squad", "stats", "csk", "kohli", "2011"}

\* The scores rapidfuzz may give the three intents route reads when no keyword
\* is hit: just below and just at the thresholds 55, 55 and 40.  route never
\* reads the other three.
FuzzTables ==
    {[intent \in DOMAIN INTENT_KEYWORDS |->
        CASE intent = "team_squad" -> a
          [] intent = "player_stats" -> b
          [] intent = "head_to_head" -> c
          [] OTHER -> 0] : a \in {54, 55}, b \in {54, 55}, c \in {39, 40}}

InitRoute ==
    /\ query \in StringsUpTo(RouteWords, MaxWords)
    /\ fuzz = <<>> /\ routed = NotRouted
    /\ ResolverIdle /\ DbIdle

Route ==
    /\ routed = NotRouted
    /\ \E fz \in FuzzTables :
        /\ fuzz' = fz
        /\ routed' = route(query, fz)
    /\ UNCHANGED <<query, resolverVars, dbVars>>

SpecRoute == InitRoute /\ [][Route]_vars

-----------------------------------------------------------------------------
(* Claims about the router *)

\* the guards of the six rules, in the order of the cascade
RuleIntents == <<"best_phase_bowler", "match_summary", "player_vs_team",
                 "team_squad", "player_stats", "head_to_head">>
RuleGuards == <<
    HasWord(query, {"best", "top"}) /\ HasWord(query, {"bowler", "bowlers"})
        /\ detect_phase(query) # NULL,
    extract_teams_pair(query) # <<>>
        /\ (OccursAny(SUMMARY_WORDS, query) \/ HasWord(query, {"match"})),
    extract_player_vs_team(query) # <<>>,
    extract_team_for_squad(query) # <<>>
        /\ (score_intent(query, fuzz).team_squad >= 55 \/ OccursAny(SQUAD_WORDS, query)),
    extract_player_for_stats(query) # <<>>
        /\ (score_intent(query, fuzz).player_stats >= 55 \/ HasWord(query, STATS_WORDS)),
    extract_teams_pair(query) # <<>>
        /\ (\/ score_intent(query, fuzz).head_to_head >= 40
            \/ OccursAny(H2H_WORDS, query)
            \/ \E i \in 2..(Len(query) - 1) : query[i] \in {"vs", "between"}
            \/ HasWord(query, {"&"})) >>

\* C1: route returns the intent of the first rule, in the order
\* best_phase_bowler, match_summary, player_vs_team, team_squad, player_stats,
\* head_to_head, whose guard holds; unknown with empty params when none holds;
\* never the intent of a later rule when the guard of an earlier rule holds.
C1_RoutePrecedence ==
    routed # NotRouted =>
        LET guard == RuleGuards
        IN  /\ \A i \in 1..6 :
                  (guard[i] /\ \A j \in 1..(i - 1) : ~guard[j])
                      => routed.intent = RuleIntents[i]
            /\ (\A i \in 1..6 : ~guard[i])
                  => (routed.intent = "unknown" /\ DOMAIN routed.params = {})
            /\ \A i \in 1..6 : \A j \in (i + 1)..6 :
                  guard[i] => routed.intent # RuleIntents[j]

\* A text on which the guards of team_squad and player_stats both hold is
\* routed to team_squad.
C1_Witness ==
    /\ routed # NotRouted
    /\ RuleGuards[4] /\ RuleGuards[5]
    /\ routed.intent = "team_squad"

\* C2: params is empty exactly when the intent is unknown, and a result that
\* carries a scope has 'season' exactly when a season was parsed from the
\* text, 'career' otherwise, and its season is the one parsed.
C2_ParamsAndScope ==
    routed # NotRouted =>
        /\ (DOMAIN routed.params = {}) <=> (routed.intent = "unknown")
        /\ routed.intent \in {"best_phase_bowler", "player_vs_team", "player_stats", "head_to_head"}
              <=> (routed.intent # "unknown" /\ "scope" \in DOMAIN routed.params)
        /\ (routed.intent # "unknown" /\ "scope" \in DOMAIN routed.params) =>
              /\ routed.params.scope \in {"season", "career"}
              /\ routed.params.scope = "season" <=> parse_season(query) # NULL
              /\ routed.params.season = parse_season(query)

\* A question with a season is routed to player_stats with scope 'season'.
C2_Witness ==
    /\ routed.intent = "player_stats"
    /\ parse_season(query) # NULL
    /\ routed.params.scope = "season"

-----------------------------------------------------------------------------
(* Loader (ingest.py).  Names of teams and players and seasons are strings, *)
(* NULL where the column is null.  A number that may be null is <<n>>, and  *)
(* <<>> when it is null.  A table is the set of its rows: the rows of a     *)
(* file differ in (innings, ball).  The players_map of an info file is the *)
(* set of its <<team, list of players>> pairs.                             *)

NoNumber == <<>>
Num(n) == <<n>>

\* COALESCE(x, 0), fillna(0)
Fill0(x) == IF x = NoNumber THEN 0 ELSE x[1]

\* A float that is not a number: what a column of numbers holds where a value
\* is missing.  It differs from every Num(n) and from NoNumber.
NaN == <<0, 0>>

\* The text of column ball is <<o, b>> for "o.b", <<o>> for "o" and <<>> for
\* a text int() rejects.
split_over_ball(x) ==
    IF Len(x) = 2 THEN <<Num(x[1]), Num(x[2])>>
    ELSE IF Len(x) = 1 THEN <<Num(x[1]), Num(0)>>
    ELSE <<NoNumber, NoNumber>>

\* every comparison with NaN is false
phase_from_over(o) ==
    IF o = NoNumber THEN NULL
    ELSE IF o # NaN /\ 1 <= o[1] /\ o[1] <= 6 THEN "PP"
    ELSE IF o # NaN /\ 7 <= o[1] /\ o[1] <= 15 THEN "Middle"
    ELSE "Death"

\* df["over"] at row i: the over of the ball; where the ball has none, None
\* when no row of the file has one, and NaN when the column holds numbers
over_column(rows, i) ==
    LET o == split_over_ball(rows[i].ball)[1]
    IN  IF o = NoNumber /\ \E j \in 1..Len(rows) : split_over_ball(rows[j].ball)[1] # NoNumber
        THEN NaN ELSE o

\* df["runs_total"], with missing runs read as null
runs_total_null_sum(r) ==
    IF r.runs_off_bat = NoNumber \/ r.extras = NoNumber THEN NoNumber
    ELSE Num(r.runs_off_bat[1] + r.extras[1])

\* df["runs_total"] = df["runs_batter"].fillna(0) + df["runs_extras"].fillna(0)
runs_total(r) == Num(Fill0(r.runs_off_bat) + Fill0(r.extras))

\* Row i of the deliveries CSV, with the derived columns, as upsert_match
\* inserts it: runs are COALESCEd with 0, and a NaN over is stored as null.
parse_deliveries_csv(rows, i) ==
    LET r == rows[i]
        over == over_column(rows, i)
    IN  [match_id |-> r.match_id, season |-> r.season, innings |-> r.innings,
         ball |-> r.ball,
         over |-> IF over = NaN THEN NoNumber ELSE over,
         ball_number |-> split_over_ball(r.ball)[2],
         batting_team |-> r.batting_team, bowling_team |-> r.bowling_team,
         striker |-> r.striker, bowler |-> r.bowler,
         runs_batter |-> Fill0(r.runs_off_bat), runs_extras |-> Fill0(r.extras),
         runs_total |-> Fill0(runs_total(r)),
         wides |-> r.wides, noballs |-> r.noballs,
         wicket_type |-> r.wicket_type, dismissal_kind |-> r.dismissal_kind,
         player_dismissed |-> r.player_dismissed,
         phase |-> phase_from_over(over)]

\* the row of matches_meta for a file; the match id is that of the first row
\* of the deliveries CSV
meta_row(file) ==
    [match_id |-> file.rows[1].match_id,
     season |-> file.meta.season, date |-> file.meta.date,
     team1 |-> file.meta.team1, team2 |-> file.meta.team2,
     winner |-> file.meta.winner,
     players_map |-> file.meta.players_map]

\* what upsert_match leaves in deliveries and in matches_meta
upsert_deliveries(dl, file) ==
    {d \in dl : d.match_id # file.rows[1].match_id}
        \cup {parse_deliveries_csv(file.rows, i) : i \in 1..Len(file.rows)}
upsert_matches_meta(mm, file) ==
    {m \in mm : m.match_id # file.rows[1].match_id} \cup {meta_row(file)}

\* One file of the folder is loaded: the rows of its match are deleted from
\* both tables and the rows of the file inserted.  Loading comes before the
\* question.
UpsertMatch ==
    /\ response = NoResponse
    /\ \E file \in folder :
        /\ deliveries' = upsert_deliveries(deliveries, file)
        /\ matches_meta' = upsert_matches_meta(matches_meta, file)
    /\ UNCHANGED <<folder, request, response, resolverVars, routerVars>>

-----------------------------------------------------------------------------
(* Query engine (query.py): helpers *)

\* SQL "a = b": unknown, so not true, when either side is null
SqlEq(a, b) == a # NULL /\ b # NULL /\ a = b

RECURSIVE SumOf(_, _)
\* SUM of column col over the rows S
SumOf(S, col) ==
    IF S = {} THEN 0
    ELSE LET r == CHOOSE x \in S : TRUE IN r[col] + SumOf(S \ {r}, col)

\* round(a / b, 2) in hundredths, for a >= 0 and b > 0: the nearest
\* hundredth, the even one of two equally near.
Round2(a, b) ==
    LET q == (100 * a) \div b
        twice == 2 * ((100 * a) % b)
    IN  IF twice > b \/ (twice = b /\ q % 2 = 1) THEN q + 1 ELSE q

\* safe_div(n, d, scale) for the divisor d[1] / d[2], in hundredths
safe_div(n, d, scale) ==
    IF d[1] = 0 THEN NoNumber ELSE Num(Round2(n * scale * d[2], d[1]))

\* SQL ROUND(n / NULLIF(d, 0), 2) in hundredths, for n >= 0 and d >= 0: null
\* when d is 0, else the nearest hundredth, the upper one of two equally near
SqlRate(n, d) ==
    IF d = 0 THEN NoNumber
    ELSE Num(IF 2 * ((100 * n) % d) >= d THEN ((100 * n) \div d) + 1 ELSE (100 * n) \div d)

\* COALESCE(wides,0) > 0 OR COALESCE(noballs,0) > 0 is false
IsLegal(d) == d.wides = 0 /\ d.noballs = 0

\* sorted(names): the names the model uses, in increasing order
NameOrder ==
    <<"A", "B", "C", "Chennai Super Kings", "Mumbai Indians", "P", "Q", "R", "R Sharma",
      "RG Sharma", "S", "T", "U", "V", "V Kohli", "W", "X", "Y", "Z">>
NameRank(x) == CHOOSE i \in 1..Len(NameOrder) : NameOrder[i] = x
RECURSIVE SortedNames(_)
SortedNames(S) ==
    IF S = {} THEN <<>>
    ELSE LET x == CHOOSE y \in S : \A z \in S : NameRank(y) <= NameRank(z)
         IN  <<x>> \o SortedNames(S \ {x})

-----------------------------------------------------------------------------
(* match_summary *)

\* WHERE season = ? AND ((team1 = ? AND team2 = ?) OR (team1 = ? AND team2 = ?))
Meetings(mm, team_a, team_b, season) ==
    {m \in mm :
        /\ SqlEq(m.season, season)
        /\ \/ SqlEq(m.team1, team_a) /\ SqlEq(m.team2, team_b)
           \/ SqlEq(m.team1, team_b) /\ SqlEq(m.team2, team_a)}

\* ORDER BY date NULLS LAST, match_id
MetaBefore(a, b) ==
    \/ a.date # NoNumber /\ (b.date = NoNumber \/ a.date[1] < b.date[1])
    \/ a.date = b.date /\ a.match_id < b.match_id

RECURSIVE OrderedMeta(_)
OrderedMeta(S) ==
    IF S = {} THEN <<>>
    ELSE LET first == CHOOSE m \in S : \A o \in S \ {m} : MetaBefore(m, o)
         IN  <<first>> \o OrderedMeta(S \ {first})

\* LIMIT n
Limit(rows, n) == SubSeq(rows, 1, IF n < Len(rows) THEN n ELSE Len(rows))

\* (legal_balls / 6) || '.' || (legal_balls % 6), as the numbers its text has
\* between the dots.  Where the engine divides integers as integers the text
\* is "q.r", <<q, r>>.  Where "/" divides as floating point the quotient is
\* written with a fraction, "2.0" or "0.16666666666666666", and the text is
\* "q.f.r", <<q, k, r>> with f the digits of k sixths.
overs_str(legal_balls, integer_division) ==
    IF integer_division THEN <<legal_balls \div 6, legal_balls % 6>>
    ELSE <<legal_balls \div 6, legal_balls % 6, legal_balls % 6>>

\* the innings list of the payload, as the set of its entries: one per
\* (innings, batting_team) of the match, with the run rate in hundredths
innings_summary(dl, match_id, integer_division) ==
    LET rows == {d \in dl : d.match_id = match_id}
        of(g) == {d \in rows : d.innings = g[1] /\ d.batting_team = g[2]}
    IN  {[innings |-> g[1], batting_team |-> g[2],
          runs |-> SumOf(of(g), "runs_total"),
          wickets |-> Cardinality({d \in of(g) : d.player_dismissed # NULL}),
          legal_balls |-> Cardinality({d \in of(g) : IsLegal(d)}),
          overs |-> overs_str(Cardinality({d \in of(g) : IsLegal(d)}), integer_division),
          run_rate |-> SqlRate(SumOf(of(g), "runs_total") * 6,
                               Cardinality({d \in of(g) : IsLegal(d)}))] :
         g \in {<<d.innings, d.batting_team>> : d \in rows}}

\* The payload: error, or the match the summary is of (evidence.match_id), its
\* row of matches_meta and its innings.  Whether "/" of two integers is the
\* integer or the floating-point quotient depends on the engine's version and
\* its integer_division setting.
match_summary(mm, dl, team_a, team_b, season, nth, integer_division) ==
    LET meta == Limit(OrderedMeta(Meetings(mm, team_a, team_b, season)), nth)
    IN  IF meta = <<>>
        THEN [op |-> "match_summary", error |-> "No match found"]
        ELSE LET m == meta[Len(meta)]
             IN  [op |-> "match_summary", error |-> NULL, match_id |-> m.match_id,
                  meta |-> m, innings |-> innings_summary(dl, m.match_id, integer_division)]

MaxMatchIds == 2
MaxNth == 3

\* a row of a deliveries CSV
CsvRow(id, season, innings, ball, bat, bowl, striker, bowler, runs, extras, wides, noballs, out) ==
    [match_id |-> id, season |-> season, innings |-> innings, ball |-> ball,
     batting_team |-> bat, bowling_team |-> bowl, striker |-> striker, bowler |-> bowler,
     runs_off_bat |-> Num(runs), extras |-> Num(extras), wides |-> wides, noballs |-> noballs,
     wicket_type |-> NULL, dismissal_kind |-> NULL, player_dismissed |-> out]

\* Files of matches between A and B, either way round, and between A and C,
\* in two seasons, dated or not, each of one over a side.
MatchFolder ==
    {[rows |-> <<CsvRow(id, season, 1, <<0, 1>>, t[1], t[2], "P", "Q", 4, 0, 0, 0, NULL),
                 CsvRow(id, season, 1, <<0, 2>>, t[1], t[2], "P", "Q", 0, 1, 1, 0, NULL),
                 CsvRow(id, season, 2, <<0, 1>>, t[2], t[1], "Q", "P", 1, 0, 0, 0, "Q")>>,
      meta |-> [season |-> season, date |-> date, team1 |-> t[1], team2 |-> t[2],
                winner |-> t[1], players_map |-> {}]] :
        id \in 1..MaxMatchIds, season \in {"2011", "2012"},
        date \in {NoNumber, Num(1), Num(2)},
        t \in {<<"A", "B">>, <<"B", "A">>, <<"A", "C">>}}

InitMatch ==
    /\ folder = MatchFolder
    /\ matches_meta = {} /\ deliveries = {}
    /\ request = NoRequest /\ response = NoResponse
    /\ ResolverIdle /\ RouterIdle

MatchSummary ==
    /\ response = NoResponse
    /\ \E t \in {<<"A", "B">>, <<"B", "A">>}, season \in {"2011", NULL}, nth \in 0..MaxNth,
          integer_division \in BOOLEAN :
        /\ request' = [op |-> "match_summary", team_a |-> t[1], team_b |-> t[2],
                       season |-> season, nth |-> nth]
        /\ response' = match_summary(matches_meta, deliveries, t[1], t[2], season, nth,
                                     integer_division)
    /\ UNCHANGED <<folder, matches_meta, deliveries, resolverVars, routerVars>>

SpecMatch == InitMatch /\ [][UpsertMatch \/ MatchSummary]_vars

\* the meetings of the two teams of the request in its season, in
\* (date, match id) order
MeetingsAsked == OrderedMeta(Meetings(matches_meta, request.team_a, request.team_b, request.season))

\* C3: for nth >= 1, match_summary summarises exactly the nth meeting of the two
\* teams in the season in (date, match id) order, whichever is stored as team1,
\* and returns the 'No match found' error when fewer than nth meetings exist.
C3_NthMeeting ==
    (response.op = "match_summary" /\ request.nth >= 1) =>
        IF request.nth <= Len(MeetingsAsked)
        THEN response.error = NULL /\ response.match_id = MeetingsAsked[request.nth].match_id
        ELSE response.error = "No match found"

\* With fewer than nth meetings and at least one, the last meeting is
\* summarised.
C3_LastMeetingInstead ==
    /\ response.op = "match_summary" /\ request.nth >= 1
    /\ 0 < Len(MeetingsAsked) /\ Len(MeetingsAsked) < request.nth
    /\ response.error = NULL
    /\ response.match_id = MeetingsAsked[Len(MeetingsAsked)].match_id

\* the legal deliveries of an innings of the match summarised
LegalOf(inn) ==
    {d \in deliveries : /\ d.match_id = response.match_id
                        /\ d.innings = inn.innings /\ d.batting_team = inn.batting_team
                        /\ d.wides = 0 /\ d.noballs = 0}

\* C16: for every innings reported by match_summary, the overs value is
\* legal_balls // 6 followed by '.' and legal_balls % 6, and run_rate is null
\* if and only if legal_balls is 0.
C16_OversAndRunRate ==
    (response.op = "match_summary" /\ response.error = NULL) =>
        \A inn \in response.innings :
            /\ inn.overs = <<Cardinality(LegalOf(inn)) \div 6, Cardinality(LegalOf(inn)) % 6>>
            /\ inn.run_rate = NoNumber <=> Cardinality(LegalOf(inn)) = 0

\* An innings of one legal ball is reported with the overs "0.1666....1",
\* the floating-point quotient before the dot.
C16_FloatQuotient ==
    /\ response.op = "match_summary" /\ response.error = NULL
    /\ \E inn \in response.innings :
          Cardinality(LegalOf(inn)) = 1 /\ inn.overs = <<0, 1, 1>>

-----------------------------------------------------------------------------
(* player_stats and player_vs_team *)

\* the batting aggregates of player over the rows df; rates in hundredths
batting_of(df, player) ==
    LET bat_df == {d \in df : d.striker = player}
        runs == SumOf(bat_df, "runs_batter")
        balls == Cardinality(bat_df)
        dismissals == Cardinality({d \in bat_df : d.player_dismissed # NULL})
    IN  [runs |-> runs, balls |-> balls,
         fours |-> Cardinality({d \in bat_df : d.runs_batter = 4}),
         sixes |-> Cardinality({d \in bat_df : d.runs_batter = 6}),
         sr |-> safe_div(runs, <<balls, 1>>, 100),
         average |-> safe_div(runs, <<dismissals, 1>>, 1)]

\* the bowling aggregates of player over the rows df
bowling_of(df, player) ==
    LET bowl_df == {d \in df : d.bowler = player}
        balls_bowled == Cardinality(bowl_df)
        runs_conceded == SumOf(bowl_df, "runs_total")
    IN  [overs |-> safe_div(balls_bowled, <<6, 1>>, 1),
         wickets |-> Cardinality({d \in bowl_df : d.player_dismissed # NULL}),
         runs_conceded |-> runs_conceded,
         economy |-> safe_div(runs_conceded, <<balls_bowled, 6>>, 1)]

\* ORDER BY date DESC NULLS LAST, match_id DESC
LaterAppearance(a, b) ==
    \/ a.date # NoNumber /\ (b.date = NoNumber \/ a.date[1] > b.date[1])
    \/ a.date = b.date /\ a.match_id > b.match_id

\* The rows that may be ranked first for last_team: those of the latest match
\* the player has a team in.  Rows of one match rank equal, and any may be
\* first.
last_team_rows(dl, mm, player) ==
    LET ap == {[match_id |-> d.match_id, date |-> m.date,
                team |-> IF d.striker = player THEN d.batting_team ELSE d.bowling_team] :
                 <<d, m>> \in {x \in dl \X mm :
                                  /\ x[1].match_id = x[2].match_id
                                  /\ (x[1].striker = player \/ x[1].bowler = player)}}
        ranked == {a \in ap : a.team # NULL}
    IN  {a \in ranked : \A b \in ranked : ~LaterAppearance(b, a)}

\* the groups of a matchup query: the player's rows as striker by bowler
\* (side "batting"), as bowler by striker (side "bowling")
matchup_agg(dl, player, side) ==
    LET rows == {d \in dl : IF side = "batting" THEN d.striker = player ELSE d.bowler = player}
        rival(d) == IF side = "batting" THEN d.bowler ELSE d.striker
        of(g) == {d \in rows : rival(d) = g}
    IN  {[name |-> g,
          outs |-> Cardinality({d \in of(g) :
                     d.player_dismissed = (IF side = "batting" THEN player ELSE d.striker)}),
          balls |-> Cardinality({d \in of(g) : IsLegal(d)}),
          economy |-> SqlRate(SumOf(of(g), "runs_total") * 6,
                              Cardinality({d \in of(g) : IsLegal(d)}))] :
         g \in {rival(d) : d \in rows}}

\* ORDER BY outs DESC, econ_vs ASC NULLS LAST, name ASC LIMIT 1 of the groups
\* with outs > 0: <<the first>>, or <<>> when there is none
most_outs(agg) ==
    LET S == {a \in agg : a.outs > 0}
        before(a, b) ==
            \/ a.outs > b.outs
            \/ a.outs = b.outs /\ a.economy # NoNumber
                  /\ (b.economy = NoNumber \/ a.economy[1] < b.economy[1])
            \/ a.outs = b.outs /\ a.economy = b.economy /\ NameRank(a.name) < NameRank(b.name)
    IN  IF S = {} THEN <<>>
        ELSE <<CHOOSE a \in S : \A b \in S \ {a} : before(a, b)>>

\* ORDER BY economy DESC, name ASC LIMIT 1 of the groups of 60 legal balls or
\* more; their economy is not null
highest_economy(agg) ==
    LET S == {a \in agg : a.balls >= 60}
        before(a, b) ==
            \/ a.economy[1] > b.economy[1]
            \/ a.economy = b.economy /\ NameRank(a.name) < NameRank(b.name)
    IN  IF S = {} THEN <<>>
        ELSE <<CHOOSE a \in S : \A b \in S \ {a} : before(a, b)>>

\* last is the row DuckDB ranked first for last_team, <<>> when there is none
player_stats(dl, mm, player, scope, season, last) ==
    LET df == {d \in dl :
                  /\ d.striker = player \/ d.bowler = player
                  /\ (scope = "season" /\ season # NULL) => SqlEq(d.season, season)}
        bat_df == {d \in df : d.striker = player}
        bowl_df == {d \in df : d.bowler = player}
        played == {d.batting_team : d \in {x \in dl : x.striker = player}}
                      \cup {d.bowling_team : d \in {x \in dl : x.bowler = player}}
    IN  IF df = {} THEN [op |-> "player_stats", error |-> "No data found"]
        ELSE [op |-> "player_stats", error |-> NULL,
              batting |-> [matches |-> Cardinality({d.match_id : d \in df}),
                           inns |-> Cardinality({d.innings : d \in bat_df}),
                           totals |-> batting_of(df, player)],
              bowling |-> [matches |-> Cardinality({d.match_id : d \in bowl_df}),
                           totals |-> bowling_of(df, player)],
              teams |-> SortedNames(played \ {NULL}),
              last_team |-> last,
              nemesis_bowler |-> most_outs(matchup_agg(dl, player, "batting")),
              favourite_bowler |-> highest_economy(matchup_agg(dl, player, "batting")),
              most_dismissed_batter |-> most_outs(matchup_agg(dl, player, "bowling")),
              worst_vs_batter |-> highest_economy(matchup_agg(dl, player, "bowling"))]

\* WHERE (striker = player OR bowler = player)
\*   AND (batting_team = opponent OR bowling_team = opponent) [AND season = season]
player_vs_team(dl, player, opponent, scope, season) ==
    LET df == {d \in dl :
                  /\ d.striker = player \/ d.bowler = player
                  /\ SqlEq(d.batting_team, opponent) \/ SqlEq(d.bowling_team, opponent)
                  /\ (scope = "season" /\ season # NULL) => SqlEq(d.season, season)}
    IN  IF df = {} THEN [op |-> "player_vs_team", error |-> "No data found"]
        ELSE [op |-> "player_vs_team", error |-> NULL,
              batting_vs_team |-> batting_of(df, player),
              bowling_vs_team |-> bowling_of(df, player)]

\* the rows of a file at the positions S, in the order of the file
RECURSIVE PickRows(_, _)
PickRows(rows, S) ==
    IF rows = <<>> THEN <<>>
    ELSE PickRows(SubSeq(rows, 1, Len(rows) - 1), S)
            \o (IF Len(rows) \in S THEN <<rows[Len(rows)]>> ELSE <<>>)
\* the files that hold some of the rows, at least one
SubFiles(rows) == {PickRows(rows, S) : S \in (SUBSET (1..Len(rows))) \ {{}}}

\* Matches of A against B in two seasons: P of A faces Q of B a four and a
\* wide, and bowls to Q a no-ball and the ball that dismisses Q.
StatsFolder ==
    {[rows |-> rows,
      meta |-> [season |-> season, date |-> Num(id), team1 |-> "A", team2 |-> "B",
                winner |-> NULL, players_map |-> {}]] :
        <<id, season, rows>> \in UNION {
            {<<i, y, r>> : r \in SubFiles(<<
                CsvRow(i, y, 1, <<0, 1>>, "A", "B", "P", "Q", 4, 0, 0, 0, NULL),
                CsvRow(i, y, 1, <<0, 2>>, "A", "B", "P", "Q", 0, 1, 1, 0, NULL),
                CsvRow(i, y, 2, <<0, 1>>, "B", "A", "Q", "P", 1, 1, 0, 1, NULL),
                CsvRow(i, y, 2, <<0, 2>>, "B", "A", "Q", "P", 0, 0, 0, 0, "Q")>>)} :
            i \in 1..MaxMatchIds, y \in {"2011", "2012"}}}

InitStats ==
    /\ folder = StatsFolder
    /\ matches_meta = {} /\ deliveries = {}
    /\ request = NoRequest /\ response = NoResponse
    /\ ResolverIdle /\ RouterIdle

PlayerStats ==
    /\ response = NoResponse
    /\ \E player \in {"P", "Q"}, scope \in {"career", "season"}, season \in {"2011", NULL} :
        LET firsts == last_team_rows(deliveries, matches_meta, player)
        IN  \E last \in (IF firsts = {} THEN {<<>>} ELSE {<<a>> : a \in firsts}) :
            /\ request' = [op |-> "player_stats", player |-> player,
                           scope |-> scope, season |-> season]
            /\ response' = player_stats(deliveries, matches_meta, player, scope, season, last)
    /\ UNCHANGED <<folder, matches_meta, deliveries, resolverVars, routerVars>>

SpecStats == InitStats /\ [][UpsertMatch \/ PlayerStats]_vars

\* the deliveries in the scope of the request
InScope == {d \in deliveries :
              (request.scope = "season" /\ request.season # NULL) => SqlEq(d.season, request.season)}
LegalFaced == {d \in InScope : d.striker = request.player /\ IsLegal(d)}
LegalBowled == {d \in InScope : d.bowler = request.player /\ IsLegal(d)}

\* C8: in player_stats, balls faced counts only the legal deliveries the
\* player faced as striker and balls bowled only the legal deliveries the
\* player bowled, so strike rate, overs and economy are over legal balls only.
C8_LegalBallsOnly ==
    (response.op = "player_stats" /\ response.error = NULL) =>
        /\ response.batting.totals.balls = Cardinality(LegalFaced)
        /\ response.batting.totals.sr =
              safe_div(response.batting.totals.runs, <<Cardinality(LegalFaced), 1>>, 100)
        /\ response.bowling.totals.overs = safe_div(Cardinality(LegalBowled), <<6, 1>>, 1)
        /\ response.bowling.totals.economy =
              safe_div(response.bowling.totals.runs_conceded, <<Cardinality(LegalBowled), 6>>, 1)

\* A wide the player faced is counted among the balls faced.
C8_WideCounted ==
    /\ response.op = "player_stats" /\ response.error = NULL
    /\ \E d \in InScope : d.striker = request.player /\ d.wides > 0
    /\ response.batting.totals.balls = Cardinality(LegalFaced) + 1

\* Matches of A against B with P in A, and of B against C with P in B: P faces
\* and bowls one ball in each.
PvTFolder ==
    {[rows |-> rows,
      meta |-> [season |-> "2011", date |-> Num(id), team1 |-> t[1], team2 |-> t[2],
                winner |-> NULL, players_map |-> {}]] :
        <<id, t, rows>> \in UNION {
            {<<i, <<"A", "B">>, r>> : r \in SubFiles(<<
                CsvRow(i, "2011", 1, <<0, 1>>, "A", "B", "P", "Q", 4, 0, 0, 0, NULL),
                CsvRow(i, "2011", 2, <<0, 1>>, "B", "A", "Q", "P", 1, 0, 0, 0, NULL)>>)}
            \cup
            {<<i, <<"B", "C">>, r>> : r \in SubFiles(<<
                CsvRow(i, "2011", 1, <<0, 1>>, "B", "C", "P", "R", 6, 0, 0, 0, NULL),
                CsvRow(i, "2011", 2, <<0, 1>>, "C", "B", "R", "P", 2, 0, 0, 0, "R")>>)} :
            i \in 1..MaxMatchIds}}

InitPvT ==
    /\ folder = PvTFolder
    /\ matches_meta = {} /\ deliveries = {}
    /\ request = NoRequest /\ response = NoResponse
    /\ ResolverIdle /\ RouterIdle

PlayerVsTeam ==
    /\ response = NoResponse
    /\ \E player \in {"P", "Q"}, opponent \in {"A", "B", "C"},
          scope \in {"career", "season"}, season \in {"2011", NULL} :
        /\ request' = [op |-> "player_vs_team", player |-> player, opponent |-> opponent,
                       scope |-> scope, season |-> season]
        /\ response' = player_vs_team(deliveries, player, opponent, scope, season)
    /\ UNCHANGED <<folder, matches_meta, deliveries, resolverVars, routerVars>>

SpecPvT == InitPvT /\ [][UpsertMatch \/ PlayerVsTeam]_vars

\* the deliveries in scope in which the team opposing the player of the
\* request is the opponent of the request
Opposed == {d \in InScope :
              \/ d.striker = request.player /\ SqlEq(d.bowling_team, request.opponent)
              \/ d.bowler = request.player /\ SqlEq(d.batting_team, request.opponent)}

\* C10: player_vs_team aggregates only deliveries in which the team opposing
\* the player is the given opponent; a delivery in which the player bats or
\* bowls for the named team never contributes.
C10_OpponentOnly ==
    (response.op = "player_vs_team" /\ response.error = NULL) =>
        /\ response.batting_vs_team = batting_of(Opposed, request.player)
        /\ response.bowling_vs_team = bowling_of(Opposed, request.player)

\* Runs the player made for the named team are in batting_vs_team.
C10_OwnTeamCounted ==
    /\ response.op = "player_vs_team" /\ response.error = NULL
    /\ \E d \in InScope : d.striker = request.player /\ d.batting_team = request.opponent
    /\ response.batting_vs_team.runs > batting_of(Opposed, request.player).runs

-----------------------------------------------------------------------------
(* team_squad *)

\* the names the matches of the team in the season list under the team, the
\* empty ones dropped
listed_players(mm, team, season) ==
    UNION {{pair[2][i] : i \in 1..Len(pair[2])} \ {""} :
             pair \in UNION {{x \in m.players_map : x[1] = team} :
                               m \in {y \in mm : /\ SqlEq(y.season, season)
                                                 /\ SqlEq(y.team1, team) \/ SqlEq(y.team2, team)}}}

\* q_apps: the (match, player) pairs of the players who were striker for the
\* team or bowler for the team in the season
appearances(dl, team, season) ==
    {<<d.match_id, d.striker>> :
        d \in {x \in dl : SqlEq(x.season, season) /\ SqlEq(x.batting_team, team) /\ x.striker # NULL}}
    \cup
    {<<d.match_id, d.bowler>> :
        d \in {x \in dl : SqlEq(x.season, season) /\ SqlEq(x.bowling_team, team) /\ x.bowler # NULL}}

\* COUNT(DISTINCT match_id) of a player
matches_of(ap, p) == Cardinality({a[1] : a \in {x \in ap : x[2] = p}})

\* a player without a count has no appearances entry
appearances_null_if_absent(ap, listed, p) ==
    IF \E a \in ap : a[2] = p THEN Num(matches_of(ap, p)) ELSE NoNumber

\* app_map.get(p, 0 if p in listed else None)
appearances_entry(ap, listed, p) ==
    IF \E a \in ap : a[2] = p THEN Num(matches_of(ap, p))
    ELSE IF p \in listed THEN Num(0)
    ELSE NoNumber

team_squad(mm, dl, team, season) ==
    LET listed == listed_players(mm, team, season)
        ap == appearances(dl, team, season)
        appeared == {a[2] : a \in ap}
        all_players == SortedNames(appeared \cup listed)
        squad == [i \in 1..Len(all_players) |->
                    [player |-> all_players[i],
                     appearances |-> appearances_entry(ap, listed, all_players[i])]]
    IN  IF squad = <<>> THEN [op |-> "team_squad", error |-> "No squad data found"]
        ELSE [op |-> "team_squad", error |-> NULL, squad |-> squad]

\* Matches of A against B in two seasons: P of A faces Q of B, Q faces P, and
\* the info file lists nobody, or P and R for A, or P and an empty name for A
\* and Q for B.
SquadFolder ==
    {[rows |-> f[1],
      meta |-> [season |-> f[2], date |-> Num(f[3]), team1 |-> "A", team2 |-> "B",
                winner |-> NULL, players_map |-> f[4]]] :
        f \in UNION {
            {<<r, y, i, pm>> :
                r \in SubFiles(<<
                    CsvRow(i, y, 1, <<0, 1>>, "A", "B", "P", "Q", 4, 0, 0, 0, NULL),
                    CsvRow(i, y, 2, <<0, 1>>, "B", "A", "Q", "P", 1, 0, 0, 0, NULL)>>),
                pm \in {{}, {<<"A", <<"P", "R">>>>},
                        {<<"A", <<"P", "">>>>, <<"B", <<"Q">>>>}}} :
            i \in 1..MaxMatchIds, y \in {"2011", "2012"}}}

InitSquad ==
    /\ folder = SquadFolder
    /\ matches_meta = {} /\ deliveries = {}
    /\ request = NoRequest /\ response = NoResponse
    /\ ResolverIdle /\ RouterIdle

TeamSquad ==
    /\ response = NoResponse
    /\ \E team \in {"A", "B", "C"}, season \in {"2011", NULL} :
        /\ request' = [op |-> "team_squad", team |-> team, season |-> season]
        /\ response' = team_squad(matches_meta, deliveries, team, season)
    /\ UNCHANGED <<folder, matches_meta, deliveries, resolverVars, routerVars>>

SpecSquad == InitSquad /\ [][UpsertMatch \/ TeamSquad]_vars

\* the players declared for the team of the request in its season, and the
\* matches of that season in which a player was striker or bowler for it
Declared == listed_players(matches_meta, request.team, request.season)
PlayedFor(p) ==
    {d.match_id : d \in {x \in deliveries :
        /\ SqlEq(x.season, request.season)
        /\ \/ x.striker = p /\ SqlEq(x.batting_team, request.team)
           \/ x.bowler = p /\ SqlEq(x.bowling_team, request.team)}}
Appeared == {p \in {d.striker : d \in deliveries} \cup {d.bowler : d \in deliveries} :
                p # NULL /\ PlayedFor(p) # {}}

\* team_squad returns each player of the union of appearances and declared
\* lists exactly once, and the error exactly when the union is empty.
SquadIsUnion ==
    /\ response.error # NULL <=> Appeared \cup Declared = {}
    /\ response.error = NULL =>
          /\ {response.squad[i].player : i \in 1..Len(response.squad)} = Appeared \cup Declared
          /\ Len(response.squad) = Cardinality(Appeared \cup Declared)

\* C9 as stated: appearances is the number of distinct matches of a player
\* who appeared, and null for a player who is listed but never appeared.
C9_Original ==
    response.op = "team_squad" =>
        /\ SquadIsUnion
        /\ response.error = NULL =>
              \A i \in 1..Len(response.squad) :
                  response.squad[i].appearances =
                      IF response.squad[i].player \in Appeared
                      THEN Num(Cardinality(PlayedFor(response.squad[i].player)))
                      ELSE NoNumber

\* C9: team_squad returns each player of the union exactly once, with the
\* number of distinct matches in which the player was striker or bowler for
\* the team that season, which is 0, not null, for a player who is listed
\* but never appeared; the error exactly when the union is empty.
C9_SquadAppearances ==
    response.op = "team_squad" =>
        /\ SquadIsUnion
        /\ response.error = NULL =>
              \A i \in 1..Len(response.squad) :
                  response.squad[i].appearances =
                      Num(Cardinality(PlayedFor(response.squad[i].player)))

\* A player who is listed but never appeared is in the squad with 0, next to
\* one who appeared.
C9_Witness ==
    /\ response.op = "team_squad" /\ response.error = NULL
    /\ \E i, j \in 1..Len(response.squad) :
          /\ response.squad[i].player \in Declared \ Appeared
          /\ response.squad[i].appearances = Num(0)
          /\ response.squad[j].player \in Appeared
          /\ response.squad[j].appearances = Num(2)

-----------------------------------------------------------------------------
(* Loading on its own: files whose runs, extras or ball text may be missing *)

\* the ball texts of the first row of a file: "0.1", "1.1", "6.6", "7.1",
\* "15.6", "16.1", "20" and a text without a number
LoadBalls == {<<0, 1>>, <<1, 1>>, <<6, 6>>, <<7, 1>>, <<15, 6>>, <<16, 1>>, <<20>>, <<>>}

\* a row of a deliveries CSV whose runs and extras may be missing
LoadRow(id, ball, runs, extras) ==
    [CsvRow(id, "2011", 1, ball, "A", "B", "P", "Q", 0, 0, 0, 0, NULL)
        EXCEPT !.runs_off_bat = runs, !.extras = extras]

\* Files of one or two rows: the first row of the first match has any of the
\* ball texts, runs 4 or missing and extras 1 or missing; a second row has
\* the ball "19.6" or no number.
LoadFolder ==
    {[rows |-> rows,
      meta |-> [season |-> "2011", date |-> NoNumber, team1 |-> "A", team2 |-> "B",
                winner |-> NULL, players_map |-> {}]] :
        rows \in UNION {
            {<<LoadRow(id, ball, runs, extras)>> \o rest :
                ball \in (IF id = 1 THEN LoadBalls ELSE {<<0, 1>>}),
                runs \in (IF id = 1 THEN {NoNumber, Num(4)} ELSE {NoNumber}),
                extras \in (IF id = 1 THEN {NoNumber, Num(1)} ELSE {Num(1)}),
                rest \in (IF id = 1
                          THEN {<<>>, <<LoadRow(id, <<19, 6>>, Num(1), NoNumber)>>,
                                <<LoadRow(id, <<>>, NoNumber, Num(2))>>}
                          ELSE {<<>>})} :
            id \in 1..MaxMatchIds}}

InitLoad ==
    /\ folder = LoadFolder
    /\ matches_meta = {} /\ deliveries = {}
    /\ request = NoRequest /\ response = NoResponse
    /\ ResolverIdle /\ RouterIdle

SpecLoad == InitLoad /\ [][UpsertMatch]_vars

\* C17: for every delivery with a known over number, the phase is PP exactly
\* when the over is in 1..6, Middle exactly when it is in 7..15 and Death
\* exactly when it is 16 or more; no over below 16 is tagged Death.
C17_PhaseOfOver ==
    \A d \in deliveries :
        d.over # NoNumber =>
            /\ d.phase = "PP" <=> (1 <= d.over[1] /\ d.over[1] <= 6)
            /\ d.phase = "Middle" <=> (7 <= d.over[1] /\ d.over[1] <= 15)
            /\ d.phase = "Death" <=> d.over[1] >= 16

\* A delivery of over 0, the first over of an innings in the ball text "0.1",
\* is stored with phase Death.
C17_OverZeroIsDeath ==
    \E d \in deliveries : d.over = Num(0) /\ d.ball = <<0, 1>> /\ d.phase = "Death"

\* C18: after any sequence of upsert_match calls, every row of deliveries has
\* runs_total = runs_batter + runs_extras, also where the runs or the extras
\* of the source row were missing.
C18_RunsTotal ==
    \A d \in deliveries : d.runs_total = d.runs_batter + d.runs_extras

\* Two matches are stored and a stored row
\* comes from a source row without extras: its total is its runs off the bat.
C18_Witness ==
    /\ Cardinality(matches_meta) = 2
    /\ \E d \in deliveries, file \in folder :
          \E i \in 1..Len(file.rows) :
              /\ file.rows[i].extras = NoNumber /\ file.rows[i].runs_off_bat = Num(4)
              /\ d = parse_deliveries_csv(file.rows, i)
              /\ d.runs_total = 4 /\ d.runs_extras = 0

-----------------------------------------------------------------------------
(* head_to_head *)

\* WHERE ((team1 = ? AND team2 = ?) OR (team1 = ? AND team2 = ?)) [AND season = ?]
h2m(mm, team_a, team_b, scope, season) ==
    {m \in mm :
        /\ \/ SqlEq(m.team1, team_a) /\ SqlEq(m.team2, team_b)
           \/ SqlEq(m.team1, team_b) /\ SqlEq(m.team2, team_a)
        /\ (scope = "season" /\ season # NULL) => SqlEq(m.season, season)}

\* WHERE match_id IN (matches) [AND season = ?]
scope_delv(dl, matches, scope, season) ==
    {d \in dl :
        /\ d.match_id \in matches
        /\ (scope = "season" /\ season # NULL) => SqlEq(d.season, season)}

\* LOWER(COALESCE(dismissal_kind, wicket_type, '')) LIKE '%run out%', for the
\* kinds of the model
RunOutKinds == {"run out", "Run Out"}
IsRunOut(d) ==
    (IF d.dismissal_kind # NULL THEN d.dismissal_kind ELSE d.wicket_type) \in RunOutKinds

\* ties counted as the matches neither side won
ties_not_won(base, team_a, team_b) ==
    Cardinality(base) - Cardinality({m \in base : SqlEq(m.winner, team_a)})
                      - Cardinality({m \in base : SqlEq(m.winner, team_b)})

\* int((base["winner"].isna()).sum())
ties(base, team_a, team_b) == Cardinality({m \in base : m.winner = NULL})

\* the rows of agg in bat_sql with team_for = team and team_against = other:
\* one per striker; sr and avg in hundredths
bat_agg(sd, team, other) ==
    LET rows == {d \in sd : SqlEq(d.batting_team, team) /\ SqlEq(d.bowling_team, other)}
        of(b) == {d \in rows : d.striker = b}
        inns(b) == {<<d.match_id, d.innings>> : d \in of(b)}
        inns_runs(b, g) == SumOf({d \in of(b) : d.match_id = g[1] /\ d.innings = g[2]},
                                 "runs_batter")
    IN  {[batter |-> b,
          runs |-> SumOf(of(b), "runs_batter"),
          balls |-> Cardinality({d \in of(b) : IsLegal(d)}),
          outs |-> Cardinality({d \in of(b) : d.player_dismissed = b}),
          hundreds |-> Cardinality({g \in inns(b) : inns_runs(b, g) >= 100}),
          fifties |-> Cardinality({g \in inns(b) : inns_runs(b, g) >= 50 /\ inns_runs(b, g) < 100}),
          sr |-> SqlRate(SumOf(of(b), "runs_batter") * 100,
                         Cardinality({d \in of(b) : IsLegal(d)})),
          avg |-> SqlRate(SumOf(of(b), "runs_batter"),
                          Cardinality({d \in of(b) : d.player_dismissed = b}))] :
         b \in {d.striker : d \in rows}}

\* a DESC NULLS LAST b: a is placed before b
DescNullsLast(a, b) == a # NoNumber /\ (b = NoNumber \/ a[1] > b[1])
\* a ASC NULLS LAST b
AscNullsLast(a, b) == a # NoNumber /\ (b = NoNumber \/ a[1] < b[1])

\* the strike rate placed before the average
star_batter_sr_first(a, b) ==
    \/ a.runs > b.runs
    \/ a.runs = b.runs /\ DescNullsLast(a.sr, b.sr)
    \/ a.runs = b.runs /\ a.sr = b.sr /\ DescNullsLast(a.avg, b.avg)
    \/ a.runs = b.runs /\ a.sr = b.sr /\ a.avg = b.avg /\ a.balls < b.balls
    \/ a.runs = b.runs /\ a.sr = b.sr /\ a.avg = b.avg /\ a.balls = b.balls
          /\ NameRank(a.batter) < NameRank(b.batter)

\* ORDER BY runs DESC, avg DESC NULLS LAST, sr DESC NULLS LAST, balls ASC, batter ASC
star_batter_before(a, b) ==
    \/ a.runs > b.runs
    \/ a.runs = b.runs /\ DescNullsLast(a.avg, b.avg)
    \/ a.runs = b.runs /\ a.avg = b.avg /\ DescNullsLast(a.sr, b.sr)
    \/ a.runs = b.runs /\ a.avg = b.avg /\ a.sr = b.sr /\ a.balls < b.balls
    \/ a.runs = b.runs /\ a.avg = b.avg /\ a.sr = b.sr /\ a.balls = b.balls
          /\ NameRank(a.batter) < NameRank(b.batter)

\* bat_payload of the row LIMIT 1 leaves: <<the payload>>, or <<>> for None
star_batting(sd, team, other) ==
    LET agg == bat_agg(sd, team, other)
    IN  IF agg = {} THEN <<>>
        ELSE LET r == CHOOSE a \in agg : \A b \in agg \ {a} : star_batter_before(a, b)
             IN  <<[player |-> r.batter, runs |-> r.runs, balls |-> r.balls, avg |-> r.avg,
                    fifties |-> r.fifties, hundreds |-> r.hundreds]>>

\* the rows of agg in bowl_sql with team_for = team and team_against = other
bowl_agg(sd, team, other) ==
    LET rows == {d \in sd : SqlEq(d.bowling_team, team) /\ SqlEq(d.batting_team, other)}
        of(b) == {d \in rows : d.bowler = b}
    IN  {[bowler |-> b,
          balls |-> Cardinality({d \in of(b) : IsLegal(d)}),
          runs_conceded |-> SumOf(of(b), "runs_total"),
          wickets |-> Cardinality({d \in of(b) : d.player_dismissed # NULL /\ ~IsRunOut(d)}),
          economy |-> SqlRate(SumOf(of(b), "runs_total") * 6,
                              Cardinality({d \in of(b) : IsLegal(d)}))] :
         b \in {d.bowler : d \in rows}}

\* ORDER BY wickets DESC, economy ASC NULLS LAST, runs_conceded ASC, balls DESC, bowler ASC
star_bowler_before(a, b) ==
    \/ a.wickets > b.wickets
    \/ a.wickets = b.wickets /\ AscNullsLast(a.economy, b.economy)
    \/ a.wickets = b.wickets /\ a.economy = b.economy /\ a.runs_conceded < b.runs_conceded
    \/ a.wickets = b.wickets /\ a.economy = b.economy /\ a.runs_conceded = b.runs_conceded
          /\ a.balls > b.balls
    \/ a.wickets = b.wickets /\ a.economy = b.economy /\ a.runs_conceded = b.runs_conceded
          /\ a.balls = b.balls /\ NameRank(a.bowler) < NameRank(b.bowler)

\* bowl_payload of the row LIMIT 1 leaves
star_bowling(sd, team, other) ==
    LET agg == bowl_agg(sd, team, other)
    IN  IF agg = {} THEN <<>>
        ELSE LET r == CHOOSE a \in agg : \A b \in agg \ {a} : star_bowler_before(a, b)
             IN  <<[player |-> r.bowler, balls |-> r.balls, runs_conceded |-> r.runs_conceded,
                    wickets |-> r.wickets, economy |-> r.economy]>>

\* The payload.  wins is the part of the summary under the keys wins_<team>,
\* star the dictionary star_performers; a key written twice holds what was
\* written last.
head_to_head(mm, dl, team_a, team_b, scope, season) ==
    LET base == h2m(mm, team_a, team_b, scope, season)
        ordered == OrderedMeta(base)
        matches == {m.match_id : m \in base}
        sd == scope_delv(dl, matches, scope, season)
    IN  IF base = {} THEN [op |-> "head_to_head", error |-> "No head-to-head matches found"]
        ELSE [op |-> "head_to_head", error |-> NULL,
              summary |->
                  [matches |-> Cardinality(base),
                   wins |-> [t \in {team_a, team_b} |->
                               IF t = team_b
                               THEN Cardinality({m \in base : SqlEq(m.winner, team_b)})
                               ELSE Cardinality({m \in base : SqlEq(m.winner, team_a)})],
                   ties |-> ties(base, team_a, team_b),
                   no_result |-> 0,
                   earliest |-> ordered[1].match_id,
                   latest |-> ordered[Len(ordered)].match_id],
              star |-> [t \in {team_a, team_b} |->
                          IF t = team_b
                          THEN [batting |-> star_batting(sd, team_b, team_a),
                                bowling |-> star_bowling(sd, team_b, team_a)]
                          ELSE [batting |-> star_batting(sd, team_a, team_b),
                                bowling |-> star_bowling(sd, team_a, team_b)]]]

\* The first match, of A against B in 2011 and won by A, by nobody or by a
\* name that is neither side's, holds some of: P of A makes a four and is
\* out, R of A makes a four, is out and plays a dot ball; then R is bowled a
\* wide and Q of B makes a single and is run out.  A later match is of B
\* against A in 2011 won by B, of B against A in 2012 won by nobody, or of C
\* against A: R makes a six and Q a single.
\* ingest.get_winner.  The teams of these files have names of one letter,
\* so the characters of a team's name are <<team>>; cand is the text of
\* info.winner (None when the file has none) and result the stripped,
\* lowercased text of the result field.  A cand that is neither team is
\* returned as it is.
get_winner(cand, result, team1, team2) ==
    IF result \in {"tie", "no result", "abandoned"} THEN NULL
    ELSE IF cand = None \/ cand = <<>> THEN NULL
    ELSE IF team1 # NULL /\ norm(cand) = norm(<<team1>>) THEN team1
    ELSE IF team2 # NULL /\ norm(cand) = norm(<<team2>>) THEN team2
    ELSE IF team1 # NULL /\ Contains(norm(cand), norm(<<team1>>)) THEN team1
    ELSE IF team2 # NULL /\ Contains(norm(cand), norm(<<team2>>)) THEN team2
    ELSE IF Len(cand) = 1 THEN cand[1] ELSE "other"

\* what the info file of the first match says: won by "a", by "A." with the
\* result a tie, no winner, or won by "C"
WinnerInfos == {<< <<"a">>, "" >>, << <<"A", ".">>, "tie" >>, <<None, "">>, << <<"C">>, "" >>}

H2HFolder ==
    {[rows |-> f[1],
      meta |-> [season |-> f[2], date |-> f[3], team1 |-> f[4][1], team2 |-> f[4][2],
                winner |-> f[5], players_map |-> {}]] :
        f \in UNION {
            IF i = 1
            THEN {<<r \o <<CsvRow(i, "2011", 1, <<0, 6>>, "A", "B", "R", "Q", 0, 1, 1, 0, NULL),
                           [CsvRow(i, "2011", 2, <<0, 1>>, "B", "A", "Q", "P", 1, 0, 0, 0, "Q")
                               EXCEPT !.wicket_type = "run out"]>>,
                    "2011", Num(1), <<"A", "B">>, w>> :
                    r \in SubFiles(<<
                        CsvRow(i, "2011", 1, <<0, 1>>, "A", "B", "P", "Q", 4, 0, 0, 0, NULL),
                        CsvRow(i, "2011", 1, <<0, 2>>, "A", "B", "P", "Q", 0, 0, 0, 0, "P"),
                        CsvRow(i, "2011", 1, <<0, 3>>, "A", "B", "R", "Q", 4, 0, 0, 0, NULL),
                        CsvRow(i, "2011", 1, <<0, 4>>, "A", "B", "R", "Q", 0, 0, 0, 0, "R"),
                        CsvRow(i, "2011", 1, <<0, 5>>, "A", "B", "R", "Q", 0, 0, 0, 0, NULL)>>),
                    w \in {get_winner(c[1], c[2], "A", "B") : c \in WinnerInfos}}
            ELSE {<< <<CsvRow(i, x[1], 1, <<0, 1>>, x[2][2], x[2][1], "R", "Q", 6, 0, 0, 0, NULL),
                       CsvRow(i, x[1], 2, <<0, 1>>, x[2][1], x[2][2], "Q", "R", 1, 0, 0, 0, NULL)>>,
                     x[1], NoNumber, x[2], x[3]>> :
                    x \in {<<"2011", <<"B", "A">>, "B">>, <<"2012", <<"B", "A">>, NULL>>,
                           <<"2011", <<"C", "A">>, "B">>}} :
            i \in 1..MaxMatchIds}}

InitH2H ==
    /\ folder = H2HFolder
    /\ matches_meta = {} /\ deliveries = {}
    /\ request = NoRequest /\ response = NoResponse
    /\ ResolverIdle /\ RouterIdle

HeadToHead ==
    /\ response = NoResponse
    /\ \E t \in {<<"A", "B">>, <<"B", "A">>},
          scope \in {"career", "season"}, season \in {"2011", NULL} :
        /\ request' = [op |-> "head_to_head", team_a |-> t[1], team_b |-> t[2],
                       scope |-> scope, season |-> season]
        /\ response' = head_to_head(matches_meta, deliveries, t[1], t[2], scope, season)
    /\ UNCHANGED <<folder, matches_meta, deliveries, resolverVars, routerVars>>

SpecH2H == InitH2H /\ [][UpsertMatch \/ HeadToHead]_vars

\* the matches of the two teams of the request, of its season when the scope
\* is the season, and the deliveries of those matches in that scope
Found ==
    {m \in matches_meta :
        /\ {m.team1, m.team2} = {request.team_a, request.team_b}
        /\ (request.scope = "season" /\ request.season # NULL) => m.season = request.season}
FoundDeliveries ==
    {d \in deliveries :
        /\ \E m \in Found : m.match_id = d.match_id
        /\ (request.scope = "season" /\ request.season # NULL) => d.season = request.season}

\* the deliveries p faced batting for team against other, and what p made of
\* them
FacedFor(p, team, other) ==
    {d \in FoundDeliveries : d.striker = p /\ d.batting_team = team /\ d.bowling_team = other}
BatRuns(p, team, other) == SumOf(FacedFor(p, team, other), "runs_batter")
BatBalls(p, team, other) ==
    Cardinality({d \in FacedFor(p, team, other) : d.wides = 0 /\ d.noballs = 0})
BatOuts(p, team, other) ==
    Cardinality({d \in FacedFor(p, team, other) : d.player_dismissed = p})
BattedFor(team, other) ==
    {p \in {d.striker : d \in FoundDeliveries} : FacedFor(p, team, other) # {}}

\* n1/d1 is the higher of two rates, a rate over 0 being null and last; the
\* rates are the same
HigherRate(n1, d1, n2, d2) == d1 > 0 /\ (d2 = 0 \/ n1 * d2 > n2 * d1)
SameRate(n1, d1, n2, d2) == (d1 = 0 /\ d2 = 0) \/ (d1 > 0 /\ d2 > 0 /\ n1 * d2 = n2 * d1)

\* p comes before q under runs descending, average descending, strike rate
\* descending, balls ascending, name ascending
BatterBefore(p, q, team, other) ==
    LET pr == BatRuns(p, team, other)   qr == BatRuns(q, team, other)
        pb == BatBalls(p, team, other)  qb == BatBalls(q, team, other)
        po == BatOuts(p, team, other)   qo == BatOuts(q, team, other)
    IN  \/ pr > qr
        \/ pr = qr /\ HigherRate(pr, po, qr, qo)
        \/ pr = qr /\ SameRate(pr, po, qr, qo) /\ HigherRate(pr, pb, qr, qb)
        \/ pr = qr /\ SameRate(pr, po, qr, qo) /\ SameRate(pr, pb, qr, qb) /\ pb < qb
        \/ pr = qr /\ SameRate(pr, po, qr, qo) /\ SameRate(pr, pb, qr, qb) /\ pb = qb
              /\ NameRank(p) < NameRank(q)

OtherTeam(t) == IF t = request.team_a THEN request.team_b ELSE request.team_a

C20_WinsAndTies ==
    (response.op = "head_to_head" /\ response.error = NULL) =>
        /\ response.summary.ties = Cardinality({m \in Found : m.winner = NULL})
        /\ response.summary.no_result = 0
        /\ \A t \in {request.team_a, request.team_b} :
              response.summary.wins[t] = Cardinality({m \in Found : m.winner = t})

\* Of two matches found one has no winner and one was won by B.
C20_Witness ==
    /\ response.op = "head_to_head" /\ response.error = NULL
    /\ response.summary.matches = 2
    /\ response.summary.ties = 1
    /\ response.summary.wins["B"] = 1 /\ response.summary.wins["A"] = 0

-----------------------------------------------------------------------------
(* best_phase_bowlers (resolver.py) *)

\* rk <= 10
MaxLeaders == 10

\* n / NULLIF(d, 0) as the fraction <<numerator, denominator>>, null when d is
\* 0: the floating-point quotient, or the integer quotient where the engine
\* divides integers as integers
Quot(n, d, integer_division) ==
    IF d = 0 THEN NoNumber
    ELSE IF integer_division THEN <<n \div d, 1>>
    ELSE <<n, d>>

\* the order of two fractions that are not null
RatLess(a, b) == a[1] * b[2] < b[1] * a[2]
RatSame(a, b) ==
    \/ a = NoNumber /\ b = NoNumber
    \/ a # NoNumber /\ b # NoNumber /\ a[1] * b[2] = b[1] * a[2]
\* a ASC NULLS LAST b, a DESC b
RatAscNullsLast(a, b) == a # NoNumber /\ (b = NoNumber \/ RatLess(a, b))

\* ROUND(x, 2) as the data frame and to_dict hand it on, in hundredths: a
\* null of the query is NaN in a column of numbers
RoundedColumn(x) == IF x = NoNumber THEN NaN ELSE SqlRate(x[1], x[2])

\* every bowler of the phase qualifies
qualifies_unfiltered(legal_balls, min_overs) == TRUE

\* WHERE legal_balls >= ?, with min_overs * 6
qualifies(legal_balls, min_overs) == legal_balls >= min_overs * 6

\* the rows of filt: one per bowler of the phase (and season) who qualifies
filt(dl, phase, scope, season, min_overs, integer_division) ==
    LET rows == {d \in dl :
                    /\ SqlEq(d.phase, phase)
                    /\ (scope = "season" /\ season # NULL) => SqlEq(d.season, season)}
        of(b) == {d \in rows : d.bowler = b}
        legal_balls(b) == Cardinality({d \in of(b) : IsLegal(d)})
        wickets(b) == Cardinality({d \in of(b) : d.player_dismissed # NULL})
    IN  {[bowler |-> b,
          legal_balls |-> legal_balls(b),
          runs_conceded |-> SumOf(of(b), "runs_total"),
          wickets |-> wickets(b),
          matches |-> Cardinality({d.match_id : d \in of(b)}),
          overs |-> Quot(legal_balls(b), 6, integer_division),
          economy |-> Quot(SumOf(of(b), "runs_total") * 6, legal_balls(b), FALSE),
          average |-> Quot(SumOf(of(b), "runs_total"), wickets(b), integer_division),
          strike_rate |-> Quot(legal_balls(b), wickets(b), integer_division),
          dot_pct |-> Quot(100 * Cardinality({d \in of(b) : d.runs_total = 0
                                                          /\ d.player_dismissed = NULL}),
                           legal_balls(b), FALSE),
          boundary_pct |-> Quot(100 * Cardinality({d \in of(b) : d.runs_batter \in {4, 6}}),
                                legal_balls(b), FALSE)] :
         b \in {x \in {d.bowler : d \in rows} : qualifies(legal_balls(x), min_overs)}}

\* ORDER BY economy ASC NULLS LAST, average ASC NULLS LAST,
\*          strike_rate ASC NULLS LAST, overs DESC, bowler ASC
leader_before(a, b) ==
    \/ RatAscNullsLast(a.economy, b.economy)
    \/ RatSame(a.economy, b.economy) /\ RatAscNullsLast(a.average, b.average)
    \/ RatSame(a.economy, b.economy) /\ RatSame(a.average, b.average)
          /\ RatAscNullsLast(a.strike_rate, b.strike_rate)
    \/ RatSame(a.economy, b.economy) /\ RatSame(a.average, b.average)
          /\ RatSame(a.strike_rate, b.strike_rate) /\ RatLess(b.overs, a.overs)
    \/ RatSame(a.economy, b.economy) /\ RatSame(a.average, b.average)
          /\ RatSame(a.strike_rate, b.strike_rate) /\ RatSame(a.overs, b.overs)
          /\ NameRank(a.bowler) < NameRank(b.bowler)

\* The payload: leaders is the set of the records of the rows with rk <= 10;
\* the query does not say in which order it returns them.  overs is the
\* fraction, the rates are in hundredths.
best_phase_bowlers(dl, phase, scope, season, min_overs, integer_division) ==
    LET f == filt(dl, phase, scope, season, min_overs, integer_division)
        rk(a) == 1 + Cardinality({b \in f : leader_before(b, a)})
    IN  [op |-> "best_phase_bowlers", error |-> NULL,
         leaders |-> {[bowler |-> a.bowler, overs |-> a.overs, wickets |-> a.wickets,
                       runs_conceded |-> a.runs_conceded,
                       economy |-> RoundedColumn(a.economy),
                       average |-> RoundedColumn(a.average),
                       strike_rate |-> RoundedColumn(a.strike_rate),
                       dot_pct |-> RoundedColumn(a.dot_pct),
                       boundary_pct |-> RoundedColumn(a.boundary_pct),
                       matches |-> a.matches] :
                      a \in {x \in f : rk(x) <= MaxLeaders}}]

\* the bowlers of the files, one more than the leaders a payload holds
PhaseBowlers == <<"P", "Q", "R", "S", "T", "U", "V", "W", "X", "Y", "Z">>

\* A file in which each of the bowlers bowls one ball of overs 1 and 2 to M: the
\* k-th concedes k modulo 3 runs, and in the second kind the last takes a
\* wicket.
CrowdRows(id, season, kind) ==
    [k \in 1..Len(PhaseBowlers) |->
        CsvRow(id, season, 1, <<1 + ((k - 1) \div 6), 1 + ((k - 1) % 6)>>, "A", "B", "M",
               PhaseBowlers[k], k % 3, 0, 0, 0,
               IF kind = 2 /\ k = Len(PhaseBowlers) THEN "M" ELSE NULL)]

\* A file in which P bowls over 3 for a run a ball, Q bowls five dot balls of
\* over 4 and then a wide (kind 1) or a sixth dot ball (kind 2), R bowls one
\* ball of over 16 for four, and S one ball of the first over, "0.1".
OverRows(id, season, kind) ==
    [k \in 1..6 |-> CsvRow(id, season, 1, <<3, k>>, "A", "B", "M", "P", 1, 0, 0, 0,
                           IF k = 6 THEN "M" ELSE NULL)]
    \o [k \in 1..5 |-> CsvRow(id, season, 1, <<4, k>>, "A", "B", "M", "Q", 0, 0, 0, 0, NULL)]
    \o <<IF kind = 1
         THEN CsvRow(id, season, 1, <<4, 6>>, "A", "B", "M", "Q", 0, 1, 1, 0, NULL)
         ELSE CsvRow(id, season, 1, <<4, 6>>, "A", "B", "M", "Q", 0, 0, 0, 0, NULL),
         CsvRow(id, season, 1, <<16, 1>>, "A", "B", "M", "R", 4, 0, 0, 0, NULL),
         CsvRow(id, season, 1, <<0, 1>>, "A", "B", "M", "S", 0, 0, 0, 0, NULL)>>

PhaseFolder ==
    {[rows |-> IF f[3] = "crowd" THEN CrowdRows(f[1], f[2], f[4]) ELSE OverRows(f[1], f[2], f[4]),
      meta |-> [season |-> f[2], date |-> NoNumber, team1 |-> "A", team2 |-> "B",
                winner |-> NULL, players_map |-> {}]] :
        f \in (1..MaxMatchIds) \X {"2011", "2012"} \X {"crowd", "overs"} \X {1, 2}}

InitPhase ==
    /\ folder = PhaseFolder
    /\ matches_meta = {} /\ deliveries = {}
    /\ request = NoRequest /\ response = NoResponse
    /\ ResolverIdle /\ RouterIdle

BestPhaseBowlers ==
    /\ response = NoResponse
    /\ \E phase \in {"PP", "Death"}, scope \in {"career", "season"}, season \in {"2011", NULL},
          min_overs \in {0, 1}, integer_division \in BOOLEAN :
        /\ request' = [op |-> "best_phase_bowlers", phase |-> phase, scope |-> scope,
                       season |-> season, min_overs |-> min_overs,
                       integer_division |-> integer_division]
        /\ response' = best_phase_bowlers(deliveries, phase, scope, season, min_overs,
                                          integer_division)
    /\ UNCHANGED <<folder, matches_meta, deliveries, resolverVars, routerVars>>

SpecPhase == InitPhase /\ [][UpsertMatch \/ BestPhaseBowlers]_vars

\* the deliveries of the phase of the request, of its season when the scope is
\* the season; what a bowler did in them
InPhase ==
    {d \in deliveries :
        /\ d.phase = request.phase
        /\ (request.scope = "season" /\ request.season # NULL) => d.season = request.season}
BowledBy(b) == {d \in InPhase : d.bowler = b}
LegalBy(b) == Cardinality({d \in BowledBy(b) : d.wides = 0 /\ d.noballs = 0})
RunsBy(b) == SumOf(BowledBy(b), "runs_total")
WicketsBy(b) == Cardinality({d \in BowledBy(b) : d.player_dismissed # NULL})
Qualifiers ==
    {b \in {d.bowler : d \in InPhase} : LegalBy(b) >= request.min_overs * 6}

\* b comes before q under economy ascending, average ascending, strike rate
\* ascending, nulls last, overs descending, name ascending, the quotients
\* being those of the engine of the request
BowlerBefore(b, q) ==
    LET i == request.integer_division
        eb == Quot(RunsBy(b) * 6, LegalBy(b), FALSE)  eq == Quot(RunsBy(q) * 6, LegalBy(q), FALSE)
        ab == Quot(RunsBy(b), WicketsBy(b), i)        aq == Quot(RunsBy(q), WicketsBy(q), i)
        sb == Quot(LegalBy(b), WicketsBy(b), i)       sq == Quot(LegalBy(q), WicketsBy(q), i)
        ob == Quot(LegalBy(b), 6, i)                  oq == Quot(LegalBy(q), 6, i)
    IN  \/ RatAscNullsLast(eb, eq)
        \/ RatSame(eb, eq) /\ RatAscNullsLast(ab, aq)
        \/ RatSame(eb, eq) /\ RatSame(ab, aq) /\ RatAscNullsLast(sb, sq)
        \/ RatSame(eb, eq) /\ RatSame(ab, aq) /\ RatSame(sb, sq) /\ RatLess(oq, ob)
        \/ RatSame(eb, eq) /\ RatSame(ab, aq) /\ RatSame(sb, sq) /\ RatSame(ob, oq)
              /\ NameRank(b) < NameRank(q)

LeaderNames == {l.bowler : l \in response.leaders}

\* C12: best_phase_bowlers returns at most 10 leaders, each with at least
\* min_overs * 6 legal balls bowled in the phase (and season, when scoped);
\* they are the first 10 qualifying bowlers under the order economy
\* ascending, average ascending, strike rate ascending (nulls last), overs
\* descending, name ascending, so a bowler below the threshold is excluded
\* even with the best economy.
C12_Leaders ==
    response.op = "best_phase_bowlers" =>
        /\ Cardinality(response.leaders) <= 10
        /\ Cardinality(LeaderNames) = Cardinality(response.leaders)
        /\ LeaderNames \subseteq Qualifiers
        /\ Cardinality(LeaderNames) =
              (IF Cardinality(Qualifiers) < 10 THEN Cardinality(Qualifiers) ELSE 10)
        /\ \A b \in LeaderNames : \A q \in Qualifiers \ LeaderNames : BowlerBefore(b, q)

\* With a minimum of one over, Q, who bowled five legal balls and a wide for
\* the best economy of the phase, is no leader, and P, who bowled six, is.
C12_Witness ==
    /\ response.op = "best_phase_bowlers" /\ request.min_overs = 1
    /\ LegalBy("Q") = 5 /\ LegalBy("P") >= 6
    /\ \A b \in {d.bowler : d \in InPhase} \ {"Q"} : BowlerBefore("Q", b)
    /\ "Q" \notin LeaderNames /\ "P" \in LeaderNames

\* Eleven bowlers qualify and ten are leaders.
C12_CapReached ==
    /\ response.op = "best_phase_bowlers"
    /\ Cardinality(Qualifiers) = 11 /\ Cardinality(response.leaders) = 10

\* C15: every ratio in an aggregation payload (strike rate, average, economy,
\* run rate, dot and boundary percentage) is null whenever its denominator is
\* zero or null; it is never zero, NaN or an error in that case.
C15_NullRatios ==
    /\ response.op = "best_phase_bowlers" =>
          \A l \in response.leaders :
              /\ WicketsBy(l.bowler) = 0 =>
                    l.average = NoNumber /\ l.strike_rate = NoNumber
              /\ LegalBy(l.bowler) = 0 =>
                    l.economy = NoNumber /\ l.dot_pct = NoNumber /\ l.boundary_pct = NoNumber
    /\ (response.op = "player_stats" /\ response.error = NULL) =>
          /\ response.batting.totals.balls = 0 => response.batting.totals.sr = NoNumber
          /\ {d \in InScope : d.striker = request.player /\ d.player_dismissed # NULL} = {}
                => response.batting.totals.average = NoNumber
          /\ {d \in InScope : d.bowler = request.player} = {}
                => response.bowling.totals.economy = NoNumber
    /\ (response.op = "match_summary" /\ response.error = NULL) =>
          \A inn \in response.innings : inn.legal_balls = 0 => inn.run_rate = NoNumber

\* A leader without a wicket has the average NaN, not null.
C15_NaNAverage ==
    /\ response.op = "best_phase_bowlers"
    /\ \E l \in response.leaders :
          WicketsBy(l.bowler) = 0 /\ l.average = NaN /\ l.strike_rate = NaN

-----------------------------------------------------------------------------
(* The five queries over one database *)

SpecQueries ==
    InitPvT /\ [][UpsertMatch \/ MatchSummary \/ PlayerStats \/ TeamSquad
                    \/ PlayerVsTeam \/ HeadToHead]_vars

\* The entity a request asks for has no data in its scope: the nth meeting,
\* deliveries of the player, players of the squad, deliveries of the player
\* against the opponent, meetings of the two teams.
NoDataInScope ==
    \/ /\ request.op = "match_summary"
       /\ ~(1 <= request.nth /\ request.nth <= Len(MeetingsAsked))
    \/ /\ request.op = "player_stats"
       /\ {d \in InScope : d.striker = request.player \/ d.bowler = request.player} = {}
    \/ /\ request.op = "team_squad"
       /\ Appeared \cup Declared = {}
    \/ /\ request.op = "player_vs_team"
       /\ Opposed = {}
    \/ /\ request.op = "head_to_head"
       /\ Found = {}

\* C13: for every input whose requested entity has no data in scope (no such
\* match, no deliveries for the player, empty squad, no deliveries for player
\* versus opponent, no meetings of the two teams), the operation returns a
\* payload with an 'error' key and raises no exception.
C13_NoDataIsError ==
    (response # NoResponse /\ NoDataInScope) => response.error # NULL

\* Asked for a meeting later than the last one, match_summary answers with
\* the summary of a match and no error.
C13_SummaryOfAnotherMatch ==
    /\ response.op = "match_summary"
    /\ request.nth > Len(MeetingsAsked)
    /\ response.error = NULL /\ response.match_id \in {m.match_id : m \in matches_meta}

\* What the operations test: no meeting at all (or nth = 0), no delivery of
\* the player, an empty squad, no delivery of the player in a match of the
\* named team, no meeting of the two teams.
NoRowsSelected ==
    \/ /\ request.op = "match_summary"
       /\ (request.nth = 0 \/ Len(MeetingsAsked) = 0)
    \/ /\ request.op = "player_stats"
       /\ {d \in InScope : d.striker = request.player \/ d.bowler = request.player} = {}
    \/ /\ request.op = "team_squad"
       /\ Appeared \cup Declared = {}
    \/ /\ request.op = "player_vs_team"
       /\ {d \in InScope : /\ d.striker = request.player \/ d.bowler = request.player
                           /\ request.opponent \in {d.batting_team, d.bowling_team}} = {}
    \/ /\ request.op = "head_to_head"
       /\ Found = {}

\* The error payload is returned exactly when the operation selects no rows.
ErrorIffNoRows ==
    response # NoResponse => (response.error # NULL <=> NoRowsSelected)

-----------------------------------------------------------------------------
(* The resolver wrappers (resolver.py): a Resolver is built from the database *)
(* for each call, the names are resolved and the query is run.               *)

\* The names of the database are strings and the resolver works on their
\* characters: the names the files of the wrappers hold, with their spelling.
Spellings == <<
    <<"Mumbai Indians", S_MumbaiIndians>>,
    <<"Chennai Super Kings", S_ChennaiSuperKings>>,
    <<"RG Sharma", S_RGSharma>>,
    <<"R Sharma", S_RSharma>>,
    <<"V Kohli", S_VKohli>> >>
\* a name none of the rows holds
Unlisted == "unlisted"
chars_of(name) == Get(Spellings, name)
name_of(chars) ==
    IF \E i \in 1..Len(Spellings) : Spellings[i][2] = chars
    THEN Spellings[CHOOSE i \in 1..Len(Spellings) : Spellings[i][2] = chars][1]
    ELSE Unlisted

\* Resolver.refresh: the sorted teams of matches_meta, the sorted strikers and
\* bowlers of deliveries
refresh_teams(mm) ==
    SortedList({chars_of(t) : t \in ({m.team1 : m \in mm} \cup {m.team2 : m \in mm}) \ {NULL}})
refresh_players(dl) ==
    SortedList({chars_of(n) : n \in ({d.striker : d \in dl} \cup {d.bowler : d \in dl}) \ {NULL}})

\* a Resolver that keeps the index it has
index_kept(old, fresh) == IF old = <<>> THEN fresh ELSE old

\* Resolver(db_path) in every wrapper: __init__ calls refresh, so the index
\* of the call is the one read from the database now
index_of_call(old, fresh) == fresh

\* res.resolve_team(team) or team, as a name of the database
team_or_text(ts, text) ==
    LET t == resolve_team(ts, text)
    IN  name_of(IF t = None \/ t = <<>> THEN text ELSE t)

\* the error payload without the candidates
player_error_without_choices(rp) ==
    IF rp[1] = None \/ rp[1] = <<>> THEN <<[error |-> "No appearances"]>> ELSE <<>>

\* What player_stats and player_vs_team return before any query when the
\* player did not resolve, <<>> when it did; rp is resolve_player's result
player_error(rp) ==
    IF (rp[1] = None \/ rp[1] = <<>>) /\ rp[2] # <<>>
    THEN <<[error |-> "Ambiguous player", choices |-> rp[2]]>>
    ELSE IF rp[1] = None \/ rp[1] = <<>>
    THEN <<[error |-> "No appearances"]>>
    ELSE <<>>

\* Files of matches of Mumbai Indians and Chennai Super Kings in 2011: in
\* match 1 RG Sharma faces a ball of V Kohli, in match 2 R Sharma faces a ball
\* of V Kohli or of RG Sharma.
WrapFolder ==
    {[rows |-> <<CsvRow(f[1], "2011", 1, <<1, 1>>, "Mumbai Indians", "Chennai Super Kings",
                        f[2][1], f[2][2], 4, 0, 0, 0, NULL)>>,
      meta |-> [season |-> "2011", date |-> Num(f[1]),
                team1 |-> "Mumbai Indians", team2 |-> "Chennai Super Kings",
                winner |-> NULL, players_map |-> {}]] :
        f \in {<<1, <<"RG Sharma", "V Kohli">>>>, <<2, <<"R Sharma", "V Kohli">>>>,
               <<2, <<"R Sharma", "RG Sharma">>>>}}

\* what the users type: "Sharma", "Rohit Sharma", "v kohli", "Kohlee";
\* "MI", "Kings", "pwi"
WrapPlayerTexts == {
    <<"S","h","a","r","m","a">>,
    <<"R","o","h","i","t"," ","S","h","a","r","m","a">>,
    <<"v"," ","k","o","h","l","i">>,
    <<"K","o","h","l","e","e">> }
WrapTeamTexts == {
    <<"M","I">>, <<"K","i","n","g","s">>, <<"p","w","i">> }

InitWrap ==
    /\ folder = WrapFolder
    /\ matches_meta = {} /\ deliveries = {}
    /\ request = NoRequest /\ response = NoResponse
    /\ normed = <<>> /\ teams = <<>> /\ players = <<>>
    /\ ratio \in RatioTables({Spellings[i][2] : i \in 1..Len(Spellings)}, {})
    /\ user_text = <<>> /\ resolved = NoCall
    /\ RouterIdle

\* The answer has been handed back: the next question may be asked, or more
\* files loaded before it.
Answered ==
    /\ response # NoResponse
    /\ request' = NoRequest /\ response' = NoResponse
    /\ UNCHANGED <<folder, matches_meta, deliveries, resolverVars, routerVars>>

\* resolver.match_summary
WrapMatchSummary ==
    /\ response = NoResponse
    /\ \E a \in WrapTeamTexts, b \in WrapTeamTexts, nth \in {1} :
        LET ts == index_of_call(teams, refresh_teams(matches_meta))
        IN  /\ teams' = ts
            /\ players' = index_of_call(players, refresh_players(deliveries))
            /\ user_text' = b
            /\ resolved' = <<resolve_team(ts, a), resolve_team(ts, b)>>
            /\ request' = [op |-> "match_summary", asked |-> <<a, b>>,
                           earlier |-> <<teams, players>>,
                           base |-> <<[team_a |-> team_or_text(ts, a),
                                       team_b |-> team_or_text(ts, b),
                                       season |-> "2011", nth |-> nth]>>]
            /\ response' = match_summary(matches_meta, deliveries, team_or_text(ts, a),
                                         team_or_text(ts, b), "2011", nth, FALSE)
    /\ UNCHANGED <<folder, matches_meta, deliveries, normed, ratio, routerVars>>

\* resolver.player_stats
WrapPlayerStats ==
    /\ response = NoResponse
    /\ \E p \in WrapPlayerTexts :
        LET ps == index_of_call(players, refresh_players(deliveries))
            rp == resolve_player(ps, p)
            canonical == name_of(rp[1])
            firsts == last_team_rows(deliveries, matches_meta, canonical)
        IN  /\ teams' = index_of_call(teams, refresh_teams(matches_meta))
            /\ players' = ps
            /\ user_text' = p
            /\ resolved' = <<rp>>
            /\ IF player_error(rp) # <<>>
               THEN /\ request' = [op |-> "player_stats", asked |-> <<p>>,
                                   earlier |-> <<teams, players>>, base |-> <<>>]
                    /\ response' = [op |-> "player_stats"] @@ player_error(rp)[1]
               ELSE \E last \in (IF firsts = {} THEN {<<>>} ELSE {<<x>> : x \in firsts}) :
                    /\ request' = [op |-> "player_stats", asked |-> <<p>>,
                                   earlier |-> <<teams, players>>,
                                   base |-> <<[player |-> canonical, scope |-> "career",
                                               season |-> NULL]>>]
                    /\ response' = player_stats(deliveries, matches_meta, canonical,
                                                "career", NULL, last)
    /\ UNCHANGED <<folder, matches_meta, deliveries, normed, ratio, routerVars>>

\* resolver.team_squad
WrapTeamSquad ==
    /\ response = NoResponse
    /\ \E t \in WrapTeamTexts :
        LET ts == index_of_call(teams, refresh_teams(matches_meta))
        IN  /\ teams' = ts
            /\ players' = index_of_call(players, refresh_players(deliveries))
            /\ user_text' = t
            /\ resolved' = <<resolve_team(ts, t)>>
            /\ request' = [op |-> "team_squad", asked |-> <<t>>,
                           earlier |-> <<teams, players>>,
                           base |-> <<[team |-> team_or_text(ts, t), season |-> "2011"]>>]
            /\ response' = team_squad(matches_meta, deliveries, team_or_text(ts, t), "2011")
    /\ UNCHANGED <<folder, matches_meta, deliveries, normed, ratio, routerVars>>

\* resolver.player_vs_team: the opponent is resolved only when the player is
WrapPlayerVsTeam ==
    /\ response = NoResponse
    /\ \E p \in WrapPlayerTexts, o \in WrapTeamTexts :
        LET ps == index_of_call(players, refresh_players(deliveries))
            ts == index_of_call(teams, refresh_teams(matches_meta))
            rp == resolve_player(ps, p)
        IN  /\ teams' = ts
            /\ players' = ps
            /\ IF player_error(rp) # <<>>
               THEN /\ user_text' = p
                    /\ resolved' = <<rp>>
                    /\ request' = [op |-> "player_vs_team", asked |-> <<p, o>>,
                                   earlier |-> <<teams, players>>, base |-> <<>>]
                    /\ response' = [op |-> "player_vs_team"] @@ player_error(rp)[1]
               ELSE /\ user_text' = o
                    /\ resolved' = <<rp, resolve_team(ts, o)>>
                    /\ request' = [op |-> "player_vs_team", asked |-> <<p, o>>,
                                   earlier |-> <<teams, players>>,
                                   base |-> <<[player |-> name_of(rp[1]),
                                               opponent |-> team_or_text(ts, o),
                                               scope |-> "career", season |-> NULL]>>]
                    /\ response' = player_vs_team(deliveries, name_of(rp[1]),
                                                  team_or_text(ts, o), "career", NULL)
    /\ UNCHANGED <<folder, matches_meta, deliveries, normed, ratio, routerVars>>

\* resolver.head_to_head
WrapHeadToHead ==
    /\ response = NoResponse
    /\ \E a \in WrapTeamTexts, b \in WrapTeamTexts :
        LET ts == index_of_call(teams, refresh_teams(matches_meta))
        IN  /\ teams' = ts
            /\ players' = index_of_call(players, refresh_players(deliveries))
            /\ user_text' = b
            /\ resolved' = <<resolve_team(ts, a), resolve_team(ts, b)>>
            /\ request' = [op |-> "head_to_head", asked |-> <<a, b>>,
                           earlier |-> <<teams, players>>,
                           base |-> <<[team_a |-> team_or_text(ts, a),
                                       team_b |-> team_or_text(ts, b),
                                       scope |-> "career", season |-> NULL]>>]
            /\ response' = head_to_head(matches_meta, deliveries, team_or_text(ts, a),
                                        team_or_text(ts, b), "career", NULL)
    /\ UNCHANGED <<folder, matches_meta, deliveries, normed, ratio, routerVars>>

SpecWrap ==
    InitWrap /\ [][UpsertMatch \/ Answered \/ WrapMatchSummary \/ WrapPlayerStats
                     \/ WrapTeamSquad \/ WrapPlayerVsTeam \/ WrapHeadToHead]_vars

\* C14: when player_stats or player_vs_team is asked for a player whose
\* resolution against the stored players is ambiguous (no name, some
\* candidates), the answer is an error carrying exactly those candidates as
\* its choices and no aggregation has been run; when the resolution finds
\* nothing (no name, no candidates), the answer is an error without choices
\* and no aggregation has been run.
C14_PlayerErrors ==
    (response # NoResponse /\ request.op \in {"player_stats", "player_vs_team"}) =>
        LET rp == resolve_player(players, request.asked[1])
        IN  /\ resolved[1] = rp
            /\ (rp[1] = None /\ rp[2] # <<>>) =>
                   /\ "error" \in DOMAIN response
                   /\ "choices" \in DOMAIN response
                   /\ response.choices = rp[2]
                   /\ request.base = <<>>
            /\ (rp[1] = None /\ rp[2] = <<>>) =>
                   /\ "error" \in DOMAIN response
                   /\ "choices" \notin DOMAIN response
                   /\ request.base = <<>>

\* "Sharma" is asked of player_vs_team while RG Sharma and R Sharma are both
\* stored: the answer carries the two of them as choices.
C14_Witness ==
    /\ response # NoResponse
    /\ request.op = "player_vs_team"
    /\ request.base = <<>>
    /\ "choices" \in DOMAIN response
    /\ response.choices = <<S_RSharma, S_RGSharma>>

\* A player nobody stored is asked of player_stats once deliveries are
\* stored: an error without choices.
C14_NotFound ==
    /\ response # NoResponse
    /\ request.op = "player_stats"
    /\ deliveries # {}
    /\ resolved[1] = <<None, <<>>>>
    /\ "error" \in DOMAIN response

StoredTeams ==
    {name_of(Spellings[i][2]) : i \in 1..Len(Spellings)} \cap
        ({m.team1 : m \in matches_meta} \cup {m.team2 : m \in matches_meta})
StoredPlayers ==
    {name_of(Spellings[i][2]) : i \in 1..Len(Spellings)} \cap
        ({d.striker : d \in deliveries} \cup {d.bowler : d \in deliveries})

\* C19: when a wrapper (match_summary, player_stats, team_squad,
\* player_vs_team, head_to_head) has answered, the index its names were
\* resolved against holds exactly the teams and the players stored at the
\* call, whatever index an earlier call had, and every stored team and player
\* resolves to itself against it.
C19_UniverseOfTheCall ==
    (response # NoResponse) =>
        /\ {teams[i] : i \in 1..Len(teams)} = {chars_of(t) : t \in StoredTeams}
        /\ {players[i] : i \in 1..Len(players)} = {chars_of(n) : n \in StoredPlayers}
        /\ \A t \in StoredTeams : resolve_team(teams, chars_of(t)) = chars_of(t)
        /\ \A n \in StoredPlayers : resolve_player(players, chars_of(n)) = <<chars_of(n), <<>>>>
        /\ resolved[1] = IF request.op \in {"player_stats", "player_vs_team"}
                         THEN resolve_player(players, request.asked[1])
                         ELSE resolve_team(teams, request.asked[1])

\* A call was answered with an index of players, a file with a new player
\* was loaded, and the next call of player_stats offers the new player among
\* its choices.
C19_Witness ==
    /\ response # NoResponse
    /\ request.op = "player_stats"
    /\ request.earlier[2] # <<>>
    /\ \E i \in 1..Len(players) :
        /\ \A j \in 1..Len(request.earlier[2]) : request.earlier[2][j] # players[i]
        /\ \E k \in 1..Len(resolved[1][2]) : resolved[1][2][k] = players[i]

-----------------------------------------------------------------------------
(* The normalizer against its description *)

\* the maximal runs of characters of s that are not in seps
RECURSIVE WordsOf(_, _)
WordsOf(s, seps) ==
    IF s = <<>> THEN <<>>
    ELSE IF Head(s) \in seps THEN WordsOf(Tail(s), seps)
    ELSE LET n == IF \E i \in 1..Len(s) : s[i] \in seps
                  THEN CHOOSE i \in 1..Len(s) :
                           s[i] \in seps /\ \A j \in 1..(i - 1) : s[j] \notin seps
                  ELSE Len(s) + 1
         IN <<SubSeq(s, 1, n - 1)>> \o WordsOf(SubSeq(s, n, Len(s)), seps)

\* the words in lower case with one space between them
RECURSIVE JoinLower(_)
JoinLower(ws) ==
    IF ws = <<>> THEN <<>>
    ELSE IF Len(ws) = 1 THEN LowerStr(ws[1])
    ELSE LowerStr(ws[1]) \o <<" ">> \o JoinLower(Tail(ws))

WhiteChars == {" ", "TAB", "NBSP"}
PunctChars == {".", "-", "ZWJ"}

\* C21 as stated: norm(text) is the text with its non-breaking spaces made
\* spaces, its periods, hyphens and zero-width joiners removed, its whitespace
\* runs collapsed to one space, lowercased and trimmed; null gives the empty
\* string.
C21_Original ==
    normed # <<>> =>
        normed[1] = IF user_text = None THEN <<>>
                    ELSE JoinLower(WordsOf(SelectSeq(user_text, LAMBDA c : c \notin PunctChars),
                                           WhiteChars))

\* C21: norm(text) is the text with its non-breaking spaces, periods, hyphens
\* and zero-width joiners made spaces, its whitespace runs collapsed to one
\* space, lowercased and trimmed, that is its words between such characters,
\* lowercased and joined by one space; null gives the empty string.
C21_NormReference ==
    normed # <<>> =>
        normed[1] = IF user_text = None THEN <<>>
                    ELSE JoinLower(WordsOf(user_text, WhiteChars \cup PunctChars))

\* a period between two letters: norm gives two words
C21_Witness ==
    /\ normed # <<>>
    /\ user_text = <<"a", ".", "B">>
    /\ normed[1] = <<"a", " ", "b">>

\* the null input has been normalized
C21_NullInput ==
    /\ user_text = None
    /\ normed # <<>>
    /\ normed[1] = <<>>

-----------------------------------------------------------------------------
(* The initials key *)

\* longest string handed to initials_key
MaxKeyLen == 5
\* two letters, the space, a tab, a period and a letter outside a-z and A-Z
KeyChars == {"a", "B", " ", "TAB", ".", "e-acute"}

InitKey ==
    /\ user_text \in StringsUpTo(KeyChars, MaxKeyLen) \cup {None}
    /\ normed = <<>>
    /\ teams = <<>> /\ players = <<>> /\ ratio = <<>> /\ resolved = NoCall
    /\ RouterIdle /\ DbIdle

\* initials_key applied to the input
InitialsKey ==
    /\ normed = <<>>
    /\ normed' = <<initials_key(user_text)>>
    /\ UNCHANGED <<teams, players, ratio, user_text, resolved, routerVars, dbVars>>

SpecKey == InitKey /\ [][InitialsKey]_vars

\* the tokens of the text: its maximal runs of the letters a-z and A-Z
LetterTokens(s) ==
    IF s = None THEN <<>> ELSE WordsOf(s, {c \in KeyChars : ~IsLetter(c)})

\* C22: initials_key(text) is the empty string when the text has no letter
\* token, the lowercased token when it has one, and otherwise the lowercased
\* first letters of all tokens but the last, then a space, then the
\* lowercased last token; the tokens are what is left between spaces once
\* every character that is neither a letter a-z, A-Z nor a space is replaced
\* by a space.
C22_InitialsKey ==
    normed # <<>> =>
        LET toks == LetterTokens(user_text)
            n == Len(toks)
        IN  normed[1] =
                IF n = 0 THEN <<>>
                ELSE IF n = 1 THEN LowerStr(toks[1])
                ELSE [i \in 1..(n - 1) |-> lower(toks[i][1])] \o <<" ">> \o LowerStr(toks[n])

\* three tokens, one of them cut off by a period: two initials and the last token
C22_Witness ==
    /\ normed # <<>>
    /\ user_text = <<"B", ".", "a", " ", "B">>
    /\ normed[1] = <<"b", "a", " ", "b">>

\* no letter token at all
C22_NoToken ==
    /\ normed # <<>>
    /\ user_text = <<".", " ", "TAB">>
    /\ normed[1] = <<>>

-----------------------------------------------------------------------------
(* The parsers of the router: detect_phase and parse_nth *)

\* longest question handed to the parsers alone
MaxParseWords == 3
ParseWords == {"pp", "middle", "overs", "end", "death", "first", "0th", "2nd", "0", "3", "12"}
\* questions about a meeting of two teams, with and without an ordinal
MeetingQuestions ==
    {<<"csk", "vs", "mi", "match">> \o t : t \in StringsUpTo({"0th", "2nd", "first", "12"}, 1)}

InitParse ==
    /\ query \in StringsUpTo(ParseWords, MaxParseWords) \cup MeetingQuestions
    /\ fuzz = <<>> /\ routed = NotRouted
    /\ ResolverIdle /\ DbIdle

DetectPhase ==
    /\ routed = NotRouted
    /\ routed' = [intent |-> "detect_phase", params |-> [phase |-> detect_phase(query)]]
    /\ UNCHANGED <<query, fuzz, resolverVars, dbVars>>

ParseNth ==
    /\ routed = NotRouted
    /\ routed' = [intent |-> "parse_nth", params |-> [nth |-> parse_nth(query, 1)]]
    /\ UNCHANGED <<query, fuzz, resolverVars, dbVars>>

SpecParse == InitParse /\ [][DetectPhase \/ ParseNth \/ Route]_vars

\* the number of characters of each alias of PHASE_ALIASES, in its order
AliasLength == <<2, 9, 10, 10, 6, 12, 7, 5, 4, 9>>
AliasesIn(q) == {j \in 1..Len(PHASE_ALIASES) : Occurs(PHASE_ALIASES[j][1], q)}
LongestAliasesIn(q) ==
    {j \in AliasesIn(q) : \A k \in AliasesIn(q) : AliasLength[k] <= AliasLength[j]}

\* C23: detect_phase returns the phase of the longest alias of the table
\* that occurs in the text as whole words, and null when none occurs; when
\* aliases of two phases occur, the longer one decides.
C23_LongestAlias ==
    routed.intent = "detect_phase" =>
        IF AliasesIn(query) = {}
        THEN routed.params.phase = NULL
        ELSE \E j \in LongestAliasesIn(query) : routed.params.phase = PHASE_ALIASES[j][2]

\* "middle" and "end overs" both occur: the answer is Middle, the phase of
\* the shorter alias, which stands earlier in the table.
C23_EarlierAliasDecides ==
    /\ routed.intent = "detect_phase"
    /\ Occurs(<<"middle">>, query) /\ Occurs(<<"end", "overs">>, query)
    /\ ~Occurs(<<"middle", "overs">>, query)
    /\ routed.params.phase = "Middle"

\* detect_phase returns the phase of the alias that stands first in the table
\* among those that occur, and null when none occurs.
FirstAliasDecides ==
    routed.intent = "detect_phase" =>
        IF AliasesIn(query) = {}
        THEN routed.params.phase = NULL
        ELSE \E j \in AliasesIn(query) :
                /\ \A k \in AliasesIn(query) : j <= k
                /\ routed.params.phase = PHASE_ALIASES[j][2]

\* C29: parse_nth returns an integer of at least 1 for every text, and so
\* the nth that route hands to match_summary is at least 1.
C29_NthAtLeastOne ==
    /\ routed.intent = "parse_nth" => routed.params.nth >= 1
    /\ routed.intent = "match_summary" => routed.params.nth >= 1

\* "csk vs mi match 0th" is routed to match_summary with nth 0
C29_ZerothMeeting ==
    /\ query = <<"csk", "vs", "mi", "match", "0th">>
    /\ routed.intent = "match_summary"
    /\ routed.params.nth = 0

-----------------------------------------------------------------------------
(* The head_to_head summary adds up *)

\* C24: in every head_to_head summary the wins of the first team, the wins
\* of the second team, the ties and the no_result count add up to the number
\* of matches reported.
C24_CountsAddUp ==
    (response.op = "head_to_head" /\ response.error = NULL) =>
        response.summary.matches =
            response.summary.wins[request.team_a] + response.summary.wins[request.team_b]
                + response.summary.ties + response.summary.no_result

\* The info file of the match of A and B names C as the winner: one match
\* is reported, won by neither, not tied and not without result.
C24_WinnerIsNeitherTeam ==
    /\ response.op = "head_to_head" /\ response.error = NULL
    /\ \E m \in Found : m.winner = "C"
    /\ response.summary.matches = 1
    /\ response.summary.wins["A"] = 0 /\ response.summary.wins["B"] = 0
    /\ response.summary.ties = 0 /\ response.summary.no_result = 0

\* The counts add up whenever every found match was won by one of the two
\* teams or has no winner.
AddUpUnlessThirdWinner ==
    (/\ response.op = "head_to_head" /\ response.error = NULL
     /\ \A m \in Found : m.winner \in {request.team_a, request.team_b, NULL}) =>
        response.summary.matches =
            response.summary.wins[request.team_a] + response.summary.wins[request.team_b]
                + response.summary.ties + response.summary.no_result

-----------------------------------------------------------------------------
(* Resolving the names of the universe themselves *)

S_RohitSharma == <<"R","o","h","i","t"," ","S","h","a","r","m","a">>
S_MSDhoni == <<"M","S"," ","D","h","o","n","i">>
OwnPlayers == CorePlayers \cup {S_RohitSharma, S_MSDhoni}

\* Any universe of teams and of players; the text asked is one of its names.
InitOwn ==
    /\ \E U \in SUBSET TeamPool : teams = SortedList(U)
    /\ \E V \in SUBSET OwnPlayers : players = SortedList(V)
    /\ ratio = [c \in TeamPool \cup OwnPlayers |-> ScoreCutoff - 1]
    /\ user_text \in Range(teams) \cup Range(players)
    /\ resolved = NoCall
    /\ normed = <<>>
    /\ RouterIdle /\ DbIdle

\* resolve_team on a team of the universe
ResolveOwnTeam ==
    /\ resolved = NoCall
    /\ user_text \in Range(teams)
    /\ resolved' = <<"team", resolve_team(teams, user_text)>>
    /\ UNCHANGED <<normed, teams, players, ratio, user_text, routerVars, dbVars>>

\* resolve_player on a player of the universe
ResolveOwnPlayer ==
    /\ resolved = NoCall
    /\ user_text \in Range(players)
    /\ resolved' = <<"player", resolve_player(players, user_text)>>
    /\ UNCHANGED <<normed, teams, players, ratio, user_text, routerVars, dbVars>>

SpecOwn == InitOwn /\ [][ResolveOwnTeam \/ ResolveOwnPlayer]_vars

\* C25 as stated: every team of the universe resolves to itself and every
\* player of the universe resolves to itself with no choices.
C25_Original ==
    /\ resolved[1] = "team" => resolved[2] = user_text
    /\ resolved[1] = "player" => resolved[2] = <<user_text, <<>>>>

\* no name of the universe that sorts later has the same normalized form
LastOfItsForm(names, t) ==
    \A u \in Range(names) : norm(u) = norm(t) => ~StrLess(t, u)
\* the normalized form is an alias key whose target normalizes otherwise
AliasedAway(aliases, t) ==
    HasKey(aliases, norm(t)) /\ norm(Get(aliases, norm(t))) # norm(t)

\* C25: a team of the universe resolves to itself, and a player of the
\* universe to itself with no choices, when no name of the universe that
\* sorts after it has the same normalized form and its normalized form is not
\* an alias key whose target has another normalized form.
C25_FixedPoints ==
    /\ (/\ resolved[1] = "team"
        /\ LastOfItsForm(teams, user_text)
        /\ ~AliasedAway(TEAM_ALIASES, user_text)) => resolved[2] = user_text
    /\ (/\ resolved[1] = "player"
        /\ LastOfItsForm(players, user_text)
        /\ ~AliasedAway(PLAYER_ALIASES, user_text)) => resolved[2] = <<user_text, <<>>>>

\* 'rg sharma' resolves to itself in a universe that holds 'RG Sharma' too,
\* which resolves to 'rg sharma'.
C25_Witness ==
    /\ resolved[1] = "player"
    /\ user_text = S_rgsharma
    /\ S_RGSharma \in Range(players)
    /\ resolved[2] = <<S_rgsharma, <<>>>>

\* the team 'MI' of the universe resolves to 'Mumbai Indians'
C25_AliasedTeam ==
    /\ resolved[1] = "team"
    /\ user_text = S_MI
    /\ resolved[2] = S_MumbaiIndians

\* 'MS Dhoni' is an alias key once normalized and resolves to itself
C25_AliasOfItself ==
    /\ resolved[1] = "player"
    /\ user_text = S_MSDhoni
    /\ resolved[2] = <<S_MSDhoni, <<>>>>

-----------------------------------------------------------------------------
(* upsert_match statement by statement (ingest.py).  Each con.execute is   *)
(* committed on its own; an exception leaves what the earlier statements   *)
(* did, and main's bulk loop goes on with the next file.                   *)

\* a text that cannot be cast to DATE
BadDate == <<0, 0, 0>>

\* INSERT INTO deliveries raises: a start_date of the frame is no date
insert_deliveries_raises(file) ==
    \E i \in 1..Len(file.rows) : file.rows[i].start_date = BadDate
\* INSERT INTO matches_meta raises: the date of the info file is no date
insert_meta_raises(file) == file.meta.date = BadDate

\* the two DELETE statements
delete_deliveries(dl, file) == {d \in dl : d.match_id # file.rows[1].match_id}
delete_matches_meta(mm, file) == {m \in mm : m.match_id # file.rows[1].match_id}

\* upsert_match: the tables it leaves and whether it raised
upsert_match(dl, mm, file) ==
    IF insert_deliveries_raises(file)
    THEN [deliveries |-> delete_deliveries(dl, file),
          matches_meta |-> delete_matches_meta(mm, file), raised |-> TRUE]
    ELSE IF insert_meta_raises(file)
    THEN [deliveries |-> upsert_deliveries(dl, file),
          matches_meta |-> delete_matches_meta(mm, file), raised |-> TRUE]
    ELSE [deliveries |-> upsert_deliveries(dl, file),
          matches_meta |-> upsert_matches_meta(mm, file), raised |-> FALSE]

\* Files of matches of A against B: P plays one ball of Q, a four or a dot
\* ball; the file is sound, or its deliveries have a start_date that is no
\* date, or its info file has a date that is no date.
IngestFolder ==
    {[rows |-> <<[start_date |-> k[1]]
                    @@ CsvRow(id, "2011", 1, <<0, 1>>, "A", "B", "P", "Q", runs, 0, 0, 0, NULL)>>,
      meta |-> [season |-> "2011", date |-> k[2], team1 |-> "A", team2 |-> "B",
                winner |-> NULL, players_map |-> {}]] :
        id \in 1..MaxMatchIds, runs \in {0, 4},
        k \in {<<Num(1), Num(1)>>, <<BadDate, Num(1)>>, <<Num(1), BadDate>>}}

\* request.loaded holds the files whose latest upsert
\* succeeded, one for a match at most
InitIngest ==
    /\ folder = IngestFolder
    /\ matches_meta = {} /\ deliveries = {}
    /\ request = [op |-> "ingest", loaded |-> {}]
    /\ response = NoResponse
    /\ ResolverIdle /\ RouterIdle

\* main calls upsert_match on a file and goes on, whether it raised or not
IngestFile ==
    \E file \in folder :
        LET after == upsert_match(deliveries, matches_meta, file)
        IN  /\ deliveries' = after.deliveries
            /\ matches_meta' = after.matches_meta
            /\ response' = [op |-> "upsert_match", raised |-> after.raised,
                            match_id |-> file.rows[1].match_id]
            /\ request' = [request EXCEPT !.loaded =
                             IF after.raised THEN @
                             ELSE {f \in @ : f.rows[1].match_id # file.rows[1].match_id}
                                      \cup {file}]
            /\ UNCHANGED <<folder, resolverVars, routerVars>>

SpecIngest == InitIngest /\ [][IngestFile]_vars

\* the rows of deliveries that the files loaded successfully hold for match id
LoadedRows(id) ==
    UNION {{parse_deliveries_csv(f.rows, i) : i \in 1..Len(f.rows)} :
              f \in {g \in request.loaded : g.rows[1].match_id = id}}

\* C26: after any sequence of upsert_match calls, failed ones and repeated
\* ones included, matches_meta has at most one row for a match id, every
\* delivery's match id has a row in matches_meta, and the deliveries of a
\* match are exactly those of its latest successful upsert.
C26_TablesConsistent ==
    /\ \A m \in matches_meta, n \in matches_meta : m.match_id = n.match_id => m = n
    /\ \A d \in deliveries : \E m \in matches_meta : m.match_id = d.match_id
    /\ \A id \in 1..MaxMatchIds : {d \in deliveries : d.match_id = id} = LoadedRows(id)

\* An upsert raised at the INSERT into matches_meta: the deliveries of its
\* file are stored and the match has no row in matches_meta.
C26_DeliveriesWithoutMeta ==
    /\ response # NoResponse /\ response.raised
    /\ \E d \in deliveries : d.match_id = response.match_id
    /\ \A m \in matches_meta : m.match_id # response.match_id

\* An upsert of a match loaded before raised at the INSERT into deliveries:
\* the match has lost the rows of its latest successful upsert.
C26_RowsLost ==
    /\ response # NoResponse /\ response.raised
    /\ LoadedRows(response.match_id) # {}
    /\ \A d \in deliveries : d.match_id # response.match_id

\* matches_meta never has two rows for a match id.
OneMetaRowPerMatch ==
    \A m \in matches_meta, n \in matches_meta : m.match_id = n.match_id => m = n

-----------------------------------------------------------------------------
(* player_stats of one season *)

\* the deliveries of the season of the request
SeasonDeliveries == {d \in deliveries : SqlEq(d.season, request.season)}
SeasonLastTeams ==
    LET firsts == last_team_rows(SeasonDeliveries, matches_meta, request.player)
    IN  IF firsts = {} THEN {<<>>} ELSE {<<a>> : a \in firsts}

SeasonBattingAndBowling ==
    (/\ response.op = "player_stats" /\ request.op = "player_stats"
     /\ response.error = NULL
     /\ request.scope = "season" /\ request.season # NULL) =>
        LET p == player_stats(SeasonDeliveries, matches_meta, request.player,
                              request.scope, request.season, <<>>)
        IN  response.batting = p.batting /\ response.bowling = p.bowling

-----------------------------------------------------------------------------
(* resolve_player on a text that normalizes to nothing *)

\* C28: for every input whose normalized form is the empty string,
\* resolve_player returns (None, no choices): neither a canonical player nor
\* a list of candidates.
C28_EmptyKeyNotFound ==
    (resolved # NoCall /\ norm(user_text) = <<>>) => resolved = <<None, <<>>>>

\* "." is asked with several players stored: no canonical name, and the
\* first players of the universe as choices.
C28_EveryPlayerAChoice ==
    /\ resolved # NoCall
    /\ user_text = <<".">>
    /\ Len(players) >= 2
    /\ resolved[1] = None
    /\ resolved[2] = SubSeq(players, 1, Len(resolved[2]))
    /\ Len(resolved[2]) >= 2

\* "." is asked with one player stored: that player is the answer.
C28_OnlyPlayerReturned ==
    /\ resolved # NoCall
    /\ user_text = <<".">>
    /\ Len(players) = 1
    /\ resolved = <<players[1], <<>>>>

\* The empty text itself is not found.
EmptyTextNotFound ==
    (resolved # NoCall /\ user_text = <<>>) => resolved = <<None, <<>>>>

-----------------------------------------------------------------------------
(* player_vs_team builds its WHERE clause by putting the player, the        *)
(* opponent and the season between quotes in the text of the query          *)
(* (query.py 568-571).  A text is the sequence of its pieces: words, the    *)
(* blank " ", the quote "'", and the signs "=", "(", ")".  The engine       *)
(* reads the clause piece by piece.                                          *)

\* the names of the database that are not one word
QuotedNames == << <<"D'Arcy", <<"D", "'", "Arcy">>>> >>
text_of(name) == IF HasKey(QuotedNames, name) THEN Get(QuotedNames, name) ELSE <<name>>
\* the name a text spells; Unlisted when it is not one word nor a quoted name
name_of_text(text) ==
    IF \E i \in 1..Len(QuotedNames) : QuotedNames[i][2] = text
    THEN QuotedNames[CHOOSE i \in 1..Len(QuotedNames) : QuotedNames[i][2] = text][1]
    ELSE IF Len(text) = 1 THEN text[1] ELSE Unlisted

\* WHERE (striker = '{player}' OR bowler = '{player}')
\*   AND (batting_team = '{opponent}' OR bowling_team = '{opponent}')
\*   [AND season = '{season}']
where_text(player, opponent, scope, season) ==
    <<"(", "striker", " ", "=", " ", "'">> \o player
        \o <<"'", " ", "OR", " ", "bowler", " ", "=", " ", "'">> \o player \o <<"'", ")">>
        \o <<" ", "AND", " ", "(", "batting_team", " ", "=", " ", "'">> \o opponent
        \o <<"'", " ", "OR", " ", "bowling_team", " ", "=", " ", "'">> \o opponent \o <<"'", ")">>
        \o (IF scope = "season" /\ season # <<>>
            THEN <<" ", "AND", " ", "season", " ", "=", " ", "'">> \o season \o <<"'">>
            ELSE <<>>)

NoParse == [ok |-> FALSE, content |-> <<>>, rest |-> <<>>]

\* The lexemes of a clause: string constants, words and signs.  A quote with
\* an even number of quotes before it opens a constant and one with an odd
\* number closes it; a closing quote with an opening quote right behind it is
\* one quote of the constant, which goes on.  A clause with an odd number of
\* quotes has a constant that never ends.
Lex(t) ==
    LET quotes_before(i) == Cardinality({j \in 1..(i - 1) : t[j] = "'"})
        opens(i) == t[i] = "'" /\ quotes_before(i) % 2 = 0
        closes(i) == t[i] = "'" /\ quotes_before(i) % 2 = 1
        starts == {i \in 1..Len(t) :
                     /\ quotes_before(i) % 2 = 0
                     /\ t[i] # " "
                     /\ opens(i) => (i = 1 \/ t[i - 1] # "'")}
        start(k) == CHOOSE i \in starts : Cardinality({j \in starts : j <= i}) = k
        end(i) == CHOOSE b \in (i + 1)..Len(t) :
                      /\ closes(b) /\ (b = Len(t) \/ t[b + 1] # "'")
                      /\ \A c \in (i + 1)..(b - 1) : closes(c) => t[c + 1] = "'"
        inner(i) == SelectSeq([j \in 1..(end(i) - i - 1) |-> i + j],
                              LAMBDA j : t[j] # "'" \/ opens(j))
        lexeme(i) ==
            IF t[i] = "'" THEN [k |-> "str", v |-> [j \in 1..Len(inner(i)) |-> t[inner(i)[j]]]]
            ELSE [k |-> IF t[i] \in {"(", ")", "=", "AND", "OR"} THEN t[i] ELSE "word",
                  v |-> <<t[i]>>]
    IN  IF Cardinality({j \in 1..Len(t) : t[j] = "'"}) % 2 = 1 THEN NoParse
        ELSE [ok |-> TRUE, content |-> [k \in 1..Cardinality(starts) |-> lexeme(start(k))],
              rest |-> <<>>]

IsOperand(x) == x.k \in {"str", "word"}
Node(op, l, r) == [op |-> op, l |-> l, r |-> r]

\* condition := conjunction (OR conjunction)*
\* conjunction := primary (AND primary)*
\* primary := ( condition ) | operand = operand
RECURSIVE ParseOr(_)
RECURSIVE ParseAnd(_)
RECURSIVE ParsePrimary(_)
ParsePrimary(ls) ==
    IF ls = <<>> THEN NoParse
    ELSE IF ls[1].k = "("
         THEN LET e == ParseOr(Tail(ls))
              IN  IF e.ok /\ e.rest # <<>> /\ e.rest[1].k = ")"
                  THEN [e EXCEPT !.rest = Tail(@)]
                  ELSE NoParse
         ELSE IF Len(ls) >= 3 /\ IsOperand(ls[1]) /\ ls[2].k = "=" /\ IsOperand(ls[3])
              THEN [ok |-> TRUE, content |-> Node("=", ls[1], ls[3]), rest |-> SubSeq(ls, 4, Len(ls))]
              ELSE NoParse
ParseAnd(ls) ==
    LET p == ParsePrimary(ls)
    IN  IF p.ok /\ p.rest # <<>> /\ p.rest[1].k = "AND"
        THEN LET q == ParseAnd(Tail(p.rest))
             IN  IF q.ok THEN [q EXCEPT !.content = Node("AND", p.content, @)] ELSE NoParse
        ELSE p
ParseOr(ls) ==
    LET p == ParseAnd(ls)
    IN  IF p.ok /\ p.rest # <<>> /\ p.rest[1].k = "OR"
        THEN LET q == ParseOr(Tail(p.rest))
             IN  IF q.ok THEN [q EXCEPT !.content = Node("OR", p.content, @)] ELSE NoParse
        ELSE p

\* the condition of a clause, when the clause is one
parse_where(t) ==
    LET ls == Lex(t)
        e == IF ls.ok THEN ParseOr(ls.content) ELSE NoParse
    IN  IF e.ok /\ e.rest = <<>> THEN e ELSE NoParse

Columns == {"striker", "bowler", "batting_team", "bowling_team", "season"}
Digits == {"1"}

\* every word of the condition is a column of deliveries or a number
RECURSIVE Binds(_)
Binds(e) ==
    IF e.op = "=" THEN \A x \in {e.l, e.r} : x.k = "word" => x.v[1] \in Columns \cup Digits
    ELSE Binds(e.l) /\ Binds(e.r)

\* an operand that names a column whose value in row d is NULL
IsNullOperand(x, d) == x.k = "word" /\ x.v[1] \in Columns /\ d[x.v[1]] = NULL
\* the text an operand stands for in row d
OperandText(x, d) ==
    IF x.k = "word" /\ x.v[1] \in Columns THEN text_of(d[x.v[1]]) ELSE x.v

RECURSIVE Holds(_, _)
Holds(e, d) ==
    IF e.op = "=" THEN /\ ~IsNullOperand(e.l, d) /\ ~IsNullOperand(e.r, d)
                       /\ OperandText(e.l, d) = OperandText(e.r, d)
    ELSE IF e.op = "AND" THEN Holds(e.l, d) /\ Holds(e.r, d)
    ELSE Holds(e.l, d) \/ Holds(e.r, d)

\* query.player_vs_team on the texts it is given: raised when the engine
\* rejects the query
player_vs_team_text(dl, player, opponent, scope, season) ==
    LET w == parse_where(where_text(player, opponent, scope, season))
        df == {d \in dl : Holds(w.content, d)}
    IN  IF ~w.ok \/ ~Binds(w.content)
        THEN [op |-> "player_vs_team", raised |-> TRUE]
        ELSE IF df = {}
        THEN [op |-> "player_vs_team", raised |-> FALSE, error |-> "No data found"]
        ELSE [op |-> "player_vs_team", raised |-> FALSE, error |-> NULL,
              batting_vs_team |-> batting_of(df, name_of_text(player)),
              bowling_vs_team |-> bowling_of(df, name_of_text(player))]

\* Matches of A against B: P and D'Arcy of A each face a ball of Q; and of
\* B against C: P of B faces a ball of R.
QuoteFolder ==
    {[rows |-> f[2],
      meta |-> [season |-> "2011", date |-> Num(f[1]), team1 |-> f[3][1], team2 |-> f[3][2],
                winner |-> NULL, players_map |-> {}]] :
        f \in UNION {
            {<<i, r, <<"A", "B">>>> : r \in SubFiles(<<
                CsvRow(i, "2011", 1, <<0, 1>>, "A", "B", "P", "Q", 4, 0, 0, 0, NULL),
                CsvRow(i, "2011", 1, <<0, 2>>, "A", "B", "D'Arcy", "Q", 1, 0, 0, 0, NULL)>>)}
            \cup {<<i, <<CsvRow(i, "2011", 1, <<0, 1>>, "B", "C", "P", "R", 6, 0, 0, 0, NULL)>>,
                    <<"B", "C">>>>} :
            i \in 1..MaxMatchIds}}

\* P, D'Arcy, and: x' OR '1'='1
AskedPlayers == {<<"P">>, <<"D", "'", "Arcy">>,
                 <<"x", "'", " ", "OR", " ", "'", "1", "'", "=", "'", "1">>}
\* B, C, and: x' OR '1'='1
AskedOpponents == {<<"B">>, <<"C">>,
                   <<"x", "'", " ", "OR", " ", "'", "1", "'", "=", "'", "1">>}

InitQuote ==
    /\ folder = QuoteFolder
    /\ matches_meta = {} /\ deliveries = {}
    /\ request = NoRequest /\ response = NoResponse
    /\ ResolverIdle /\ RouterIdle

PlayerVsTeamText ==
    /\ response = NoResponse
    /\ \E player \in AskedPlayers, opponent \in AskedOpponents,
          scope \in {"career", "season"}, season \in {<<"2011">>, <<>>} :
        /\ request' = [op |-> "player_vs_team", player |-> player, opponent |-> opponent,
                       scope |-> scope, season |-> season]
        /\ response' = player_vs_team_text(deliveries, player, opponent, scope, season)
    /\ UNCHANGED <<folder, matches_meta, deliveries, resolverVars, routerVars>>

SpecQuote == InitQuote /\ [][UpsertMatch \/ PlayerVsTeamText]_vars

\* what the deliveries of exactly this player against exactly this opponent
\* (in this season) give
LiteralAnswer ==
    player_vs_team(deliveries, name_of_text(request.player), name_of_text(request.opponent),
                   request.scope,
                   IF request.season = <<>> THEN NULL ELSE name_of_text(request.season))
AnswersLiterally ==
    /\ ~response.raised
    /\ response.error = LiteralAnswer.error
    /\ response.error = NULL =>
           /\ response.batting_vs_team = LiteralAnswer.batting_vs_team
           /\ response.bowling_vs_team = LiteralAnswer.bowling_vs_team

\* C30: for every player, opponent and season text, texts with a quote
\* included, player_vs_team returns a payload or an error payload, raises
\* nothing, and reads only the deliveries of the player and the opponent
\* given, taken literally.
C30_LiteralAndTotal ==
    response.op = "player_vs_team" => AnswersLiterally

\* D'Arcy, whose deliveries are stored, is asked for: the query is rejected
\* and the call raises.
C30_QuoteRaises ==
    /\ response.op = "player_vs_team"
    /\ request.player = <<"D", "'", "Arcy">>
    /\ \E d \in deliveries : d.striker = "D'Arcy"
    /\ response.raised

\* The opponent x' OR '1'='1 is asked for: the runs P made against every
\* team are in the payload.
C30_EveryOpponentRead ==
    /\ response.op = "player_vs_team" /\ ~response.raised
    /\ request.player = <<"P">>
    /\ request.opponent \notin {<<"B">>, <<"C">>}
    /\ response.error = NULL
    /\ response.batting_vs_team.runs = 10

\* A call whose texts hold no quote answers literally.
QuoteFreeIsLiteral ==
    (/\ response.op = "player_vs_team"
     /\ \A t \in {request.player, request.opponent, request.season} :
            \A i \in 1..Len(t) : t[i] # "'") => AnswersLiterally

====
